---- MODULE Spec2Model ----
(***************************************************************************)
(* XYZ plot orchestration of comfyui-testing (src/nodes.py, src/routes.py). *)
(*                                                                         *)
(* A Python str is a sequence of one-character strings, so that strip,     *)
(* replace, split and f-string formatting are computed as the code         *)
(* computes them.  None is the record None.  A dict is a function; a key   *)
(* that a dict may lack is a key that may be missing from its DOMAIN.      *)
(***************************************************************************)
EXTENDS Integers, Sequences, FiniteSets, TLC

\* ------------------------------------------------------------------------
\* Bounds of the model
\* ------------------------------------------------------------------------
MaxPlans == 1

MaxCompletions == 2

MaxBatch == 2

MaxTime == 1

\* ------------------------------------------------------------------------
\* Python values
\* ------------------------------------------------------------------------
None == [none |-> TRUE]

SPLITTER == <<":", ":">>

DefaultFolderName ==
    <<"x","y","z","_","p","l","o","t","_","a","r","t","i","f","y">>

\* str.strip(): leading and trailing whitespace removed
RECURSIVE LStripWs(_)
LStripWs(s) ==
    IF s # <<>> /\ Head(s) \in {" ", "\t", "\n"} THEN LStripWs(Tail(s)) ELSE s

RECURSIVE RStripWs(_)
RStripWs(s) ==
    IF s # <<>> /\ s[Len(s)] \in {" ", "\t", "\n"}
    THEN RStripWs(SubSeq(s, 1, Len(s) - 1))
    ELSE s

StrStrip(s) == RStripWs(LStripWs(s))

\* str.strip(c) for a one-character c
RECURSIVE LStripCh(_, _)
LStripCh(s, c) ==
    IF s # <<>> /\ Head(s) = c THEN LStripCh(Tail(s), c) ELSE s

RECURSIVE RStripCh(_, _)
RStripCh(s, c) ==
    IF s # <<>> /\ s[Len(s)] = c
    THEN RStripCh(SubSeq(s, 1, Len(s) - 1), c)
    ELSE s

StrStripCh(s, c) == RStripCh(LStripCh(s, c), c)

StartsWith(s, p) == Len(s) >= Len(p) /\ SubSeq(s, 1, Len(p)) = p

\* `sub in s`
RECURSIVE Contains(_, _)
Contains(s, sub) ==
    IF Len(s) < Len(sub) THEN FALSE
    ELSE StartsWith(s, sub) \/ Contains(Tail(s), sub)

\* str.replace(old, new): leftmost non-overlapping occurrences, old non-empty
RECURSIVE StrReplace(_, _, _)
StrReplace(s, old, new) ==
    IF s = <<>> THEN <<>>
    ELSE IF StartsWith(s, old)
         THEN new \o StrReplace(SubSeq(s, Len(old) + 1, Len(s)), old, new)
         ELSE <<Head(s)>> \o StrReplace(Tail(s), old, new)

\* index of the first occurrence of sep in s at or after position i, 0 if none
RECURSIVE FindFrom(_, _, _)
FindFrom(s, sep, i) ==
    IF i + Len(sep) - 1 > Len(s) THEN 0
    ELSE IF SubSeq(s, i, i + Len(sep) - 1) = sep THEN i
         ELSE FindFrom(s, sep, i + 1)

\* str.split(sep, maxsplit); maxsplit = -1 is no limit
RECURSIVE StrSplit(_, _, _)
StrSplit(s, sep, maxsplit) ==
    LET at == FindFrom(s, sep, 1) IN
    IF maxsplit = 0 \/ at = 0 THEN <<s>>
    ELSE <<SubSeq(s, 1, at - 1)>>
         \o StrSplit(SubSeq(s, at + Len(sep), Len(s)), sep,
                     IF maxsplit < 0 THEN maxsplit ELSE maxsplit - 1)

\* str(n) of an int
RECURSIVE DecNat(_)
DecNat(n) ==
    LET d == <<"0","1","2","3","4","5","6","7","8","9">>[(n % 10) + 1] IN
    IF n < 10 THEN <<d>> ELSE DecNat(n \div 10) \o <<d>>

Dec(n) == IF n < 0 THEN <<"-">> \o DecNat(-n) ELSE DecNat(n)

SeqFilter(s, keep(_)) ==
    LET F[i \in 0..Len(s)] ==
            IF i = 0 THEN <<>>
            ELSE IF keep(s[i]) THEN Append(F[i - 1], s[i]) ELSE F[i - 1]
    IN F[Len(s)]

SeqMap(s, f(_)) == [i \in 1..Len(s) |-> f(s[i])]

Range(s) == {s[i] : i \in 1..Len(s)}

\* ------------------------------------------------------------------------
\* src/nodes.py helpers
\* ------------------------------------------------------------------------
\* _sanitize_folder_name of nodes.py.  Every caller passes a str (a String
\* input, a name stamped by PLAN, a value checked with isinstance), so
\* `name or ""` is name.
_sanitize_folder_name(name) ==
    LET c1 == StrReplace(StrStrip(name), <<"\\">>, <<"/">>)
        c2 == StrStripCh(c1, "/")
        c3 == StrReplace(c2, <<".", ".">>, <<>>)
    IN IF c3 = <<>> THEN DefaultFolderName ELSE c3

\* a variant of _split_values that keeps the values as split, untrimmed
SplitValuesUntrimmed(raw) ==
    LET text == StrStrip(raw)
        parts == IF Contains(text, <<";">>) THEN StrSplit(text, <<";">>, -1)
                 ELSE IF Contains(text, <<",">>) THEN StrSplit(text, <<",">>, -1)
                 ELSE <<text>>
        NonEmpty(v) == StrStrip(v) # <<>>
    IN IF text = <<>> THEN <<>>
       ELSE SeqFilter(parts, NonEmpty)

\* _split_values.  raw is the value of a String input, never None.
_split_values(raw) ==
    LET text == StrStrip(raw)
        parts == IF Contains(text, <<";">>) THEN StrSplit(text, <<";">>, -1)
                 ELSE IF Contains(text, <<",">>) THEN StrSplit(text, <<",">>, -1)
                 ELSE <<text>>
        NonEmpty(v) == StrStrip(v) # <<>>
    IN IF text = <<>> THEN <<>>
       ELSE SeqMap(SeqFilter(parts, NonEmpty), StrStrip)

\* folder_paths.get_output_directory()
OutputDirectory == <<"/", "o", "u", "t">>

\* os.path.join(a, b) on POSIX: an absolute b discards a
PathJoin(a, b) ==
    IF b # <<>> /\ Head(b) = "/" THEN b
    ELSE IF a = <<>> \/ a[Len(a)] = "/" THEN a \o b
    ELSE a \o <<"/">> \o b

\* _output_folder_path
_output_folder_path(folder_name) == PathJoin(OutputDirectory, folder_name)

\* a variant of _image_filename that writes the z segment for z > 0 only
ImageFilenameZeroZOmitted(ix, iy, iz, batch_index) ==
    IF iz > 0
    THEN <<"x">> \o Dec(ix) \o <<"_", "y">> \o Dec(iy) \o <<"_", "z">> \o Dec(iz)
         \o <<"_">> \o Dec(batch_index) \o <<".", "j", "p", "e", "g">>
    ELSE <<"x">> \o Dec(ix) \o <<"_", "y">> \o Dec(iy)
         \o <<"_">> \o Dec(batch_index) \o <<".", "j", "p", "e", "g">>

\* a variant of _image_filename that leaves the Y index out of the name
ImageFilenameWithoutY(ix, iy, iz, batch_index) ==
    IF iz >= 0
    THEN <<"x">> \o Dec(ix) \o <<"_", "z">> \o Dec(iz)
         \o <<"_">> \o Dec(batch_index) \o <<".", "j", "p", "e", "g">>
    ELSE <<"x">> \o Dec(ix)
         \o <<"_">> \o Dec(batch_index) \o <<".", "j", "p", "e", "g">>

\* _image_filename
_image_filename(ix, iy, iz, batch_index) ==
    IF iz >= 0
    THEN <<"x">> \o Dec(ix) \o <<"_", "y">> \o Dec(iy) \o <<"_", "z">> \o Dec(iz)
         \o <<"_">> \o Dec(batch_index) \o <<".", "j", "p", "e", "g">>
    ELSE <<"x">> \o Dec(ix) \o <<"_", "y">> \o Dec(iy)
         \o <<"_">> \o Dec(batch_index) \o <<".", "j", "p", "e", "g">>

\* _preview_src
_preview_src(folder_name, filename) ==
    <<"/","v","i","e","w","?","f","i","l","e","n","a","m","e","=">> \o filename
    \o <<"&","t","y","p","e","=","o","u","t","p","u","t","&",
         "s","u","b","f","o","l","d","e","r","=">> \o folder_name

\* ------------------------------------------------------------------------
\* The execution graph ("prompt"): node id -> node, a node a record with
\* class_type and (possibly) inputs, inputs a dict widget name -> value.
\* Values are tagged: a widget string, a link [node, slot] or a dict.
\* ------------------------------------------------------------------------
JStr(v) == [kind |-> "str", v |-> v]

JLink(node, slot) == [kind |-> "link", node |-> node, slot |-> slot]

EmptyDict == <<>>

K_xyz_data == <<"x","y","z","_","d","a","t","a">>

K_xyz_plot == <<"x","y","z","_","p","l","o","t">>

K_images == <<"i","m","a","g","e","s">>

ResultJson == <<"r","e","s","u","l","t",".","j","s","o","n">>

WorkflowJson == <<"w","o","r","k","f","l","o","w",".","j","s","o","n">>

\* dict.setdefault("inputs", {}) on a node
NodeWithInputs(node) ==
    IF "inputs" \in DOMAIN node THEN node
    ELSE [class_type |-> node.class_type, inputs |-> EmptyDict]

DictSet(d, k, v) == [key \in DOMAIN d \cup {k} |-> IF key = k THEN v ELSE d[key]]

\* _ensure_prompt_node: does the lookup find a node?  The prompt is decoded
\* JSON, its keys are str, so the retry with int(node_id) finds nothing.
_ensure_prompt_node(prompt, node_id) == node_id \in DOMAIN prompt

\* a variant of _set_axis_value that sets the widget without looking it up
SetAxisValueUnchecked(prompt, axis_ref, value) ==
    IF ~_ensure_prompt_node(prompt, axis_ref.node_id)
    THEN [ok |-> FALSE, error |-> "NodeNotFound", prompt |-> prompt]
    ELSE LET node == NodeWithInputs(prompt[axis_ref.node_id])
         IN [ok |-> TRUE, error |-> "",
             prompt |-> [prompt EXCEPT ![axis_ref.node_id] =
                 [class_type |-> node.class_type,
                  inputs |-> DictSet(node.inputs, axis_ref.widget_name, JStr(value))]]]

\* _set_axis_value: the mutated prompt, or the error raised; setdefault has
\* acted on the node before the widget is looked up.
_set_axis_value(prompt, axis_ref, value) ==
    IF ~_ensure_prompt_node(prompt, axis_ref.node_id)
    THEN [ok |-> FALSE, error |-> "NodeNotFound", prompt |-> prompt]
    ELSE LET node == NodeWithInputs(prompt[axis_ref.node_id])
             p1 == [prompt EXCEPT ![axis_ref.node_id] = node]
         IN IF axis_ref.widget_name \notin DOMAIN node.inputs
            THEN [ok |-> FALSE, error |-> "WidgetNotFound", prompt |-> p1]
            ELSE [ok |-> TRUE, error |-> "",
                  prompt |-> [p1 EXCEPT ![axis_ref.node_id] =
                      [class_type |-> node.class_type,
                       inputs |-> DictSet(node.inputs, axis_ref.widget_name, JStr(value))]]]

\* the order of prompt.items(): the order of the keys in the JSON document
NodeOrder == << <<"1">>, <<"5">>, <<"7">>, <<"8">> >>

\* _find_viewer_node_ids
_find_viewer_node_ids(prompt, plot_node_id) ==
    LET IsViewer(id) ==
            /\ id \in DOMAIN prompt
            /\ prompt[id].class_type = "ArtifyXYZViewer"
            /\ "inputs" \in DOMAIN prompt[id]
            /\ K_xyz_plot \in DOMAIN prompt[id].inputs
            /\ prompt[id].inputs[K_xyz_plot].kind = "link"
            /\ prompt[id].inputs[K_xyz_plot].node = plot_node_id
    IN SeqFilter(NodeOrder, IsViewer)

PlotData(folder_name, folder_path) ==
    [kind |-> "plot_data", folder_name |-> folder_name, folder_path |-> folder_path,
     result_path |-> PathJoin(folder_path, ResultJson)]

\* a variant of _prepare_viewer_refresh_prompt that copies the graph and
\* leaves the plot input of the viewers as it is
PrepareViewerRefreshKeepingLinks(prompt, viewer_ids, folder_name, folder_path) ==
    [id \in DOMAIN prompt |->
        IF id \in Range(viewer_ids)
        THEN [class_type |-> prompt[id].class_type,
              inputs |-> NodeWithInputs(prompt[id]).inputs]
        ELSE prompt[id]]

\* _prepare_viewer_refresh_prompt
_prepare_viewer_refresh_prompt(prompt, viewer_ids, folder_name, folder_path) ==
    [id \in DOMAIN prompt |->
        IF id \in Range(viewer_ids)
        THEN [class_type |-> prompt[id].class_type,
              inputs |-> DictSet(NodeWithInputs(prompt[id]).inputs, K_xyz_plot,
                                 PlotData(folder_name, folder_path))]
        ELSE prompt[id]]

\* ------------------------------------------------------------------------
\* The manifest
\* ------------------------------------------------------------------------
ImgSlot(folder_name, ix, iy, iz, batch_index) ==
    [uuid |-> folder_name \o <<":">> \o Dec(ix) \o <<":">> \o Dec(iy) \o <<":">>
              \o Dec(iz) \o <<":">> \o Dec(batch_index),
     type |-> "img",
     filename |-> _image_filename(ix, iy, iz, batch_index),
     src |-> _preview_src(folder_name, _image_filename(ix, iy, iz, batch_index))]

\* a variant of _build_result_tree that names the slots of a Z cell without
\* their z index
BuildResultTreeFlatNames(folder_name, values_x, values_y, values_z, batch_size) ==
    LET has_z == Len(values_z) > 0
        Imgs(ix, iy, iz) ==
            [b \in 1..batch_size |-> ImgSlot(folder_name, ix, iy, -1, b - 1)]
        Cell(ix, iy) ==
            IF has_z
            THEN [z \in 1..Len(values_z) |->
                    [type |-> "axis", value |-> values_z[z],
                     children |-> Imgs(ix, iy, z - 1)]]
            ELSE Imgs(ix, iy, -1)
        Row(ix) ==
            [y \in 1..Len(values_y) |->
                [type |-> "axis", value |-> values_y[y], children |-> Cell(ix, y - 1)]]
    IN [x \in 1..Len(values_x) |->
            [type |-> "axis", value |-> values_x[x], children |-> Row(x - 1)]]

\* _build_result_tree
_build_result_tree(folder_name, values_x, values_y, values_z, batch_size) ==
    LET has_z == Len(values_z) > 0
        Imgs(ix, iy, iz) ==
            [b \in 1..batch_size |-> ImgSlot(folder_name, ix, iy, iz, b - 1)]
        Cell(ix, iy) ==
            IF has_z
            THEN [z \in 1..Len(values_z) |->
                    [type |-> "axis", value |-> values_z[z],
                     children |-> Imgs(ix, iy, z - 1)]]
            ELSE Imgs(ix, iy, -1)
        Row(ix) ==
            [y \in 1..Len(values_y) |->
                [type |-> "axis", value |-> values_y[y], children |-> Cell(ix, y - 1)]]
    IN [x \in 1..Len(values_x) |->
            [type |-> "axis", value |-> values_x[x], children |-> Row(x - 1)]]

\* _build_annotations: an axis whose reference is falsy is skipped
_build_annotations(input_x, input_y, input_z) ==
    LET Ann(axis, ref) ==
            IF ref = None THEN <<>>
            ELSE << [axis |-> axis,
                     key |-> StrStrip(<<"#">> \o ref.node_id \o <<" ">> \o ref.node_title),
                     type |-> ref.widget_name] >>
    IN Ann("X", input_x) \o Ann("Y", input_y) \o Ann("Z", input_z)

\* ------------------------------------------------------------------------
\* The output directory.  fs maps the path of a directory to [id, files]:
\* id is the identity of the directory object (it survives a rename), files
\* maps a file name to its content.  Every content names its writer (by):
\* the plan, and for an image the cell whose COMPLETE execution wrote it.
\* ------------------------------------------------------------------------
Exists(f, path) == path \in DOMAIN f

\* os.makedirs(path, exist_ok=True)
MakeDirs(f, path, newid) ==
    IF Exists(f, path) THEN f
    ELSE [q \in DOMAIN f \cup {path} |->
            IF q = path THEN [id |-> newid, files |-> EmptyDict] ELSE f[q]]

\* open(os.path.join(path, name), "w") and a write of content
WriteFile(f, path, name, content) ==
    [f EXCEPT ![path] = [id |-> f[path].id,
                         files |-> DictSet(f[path].files, name, content)]]

\* os.path.basename
RECURSIVE Basename(_)
Basename(path) ==
    IF FindFrom(path, <<"/">>, 1) = 0 THEN path
    ELSE Basename(SubSeq(path, FindFrom(path, <<"/">>, 1) + 1, Len(path)))

Rename(f, src, dst) ==
    [q \in (DOMAIN f \ {src}) \cup {dst} |-> IF q = dst THEN f[src] ELSE f[q]]

\* shutil.move(src, dst): into dst when dst is an existing directory, and an
\* error when the destination inside it exists too
ShutilMove(f, src, dst) ==
    LET real_dst == IF Exists(f, dst) THEN PathJoin(dst, Basename(src)) ELSE dst IN
    IF Exists(f, real_dst) THEN [ok |-> FALSE, fs |-> f]
    ELSE [ok |-> TRUE, fs |-> Rename(f, src, real_dst)]

\* _write_result_json
_write_result_json(f, folder_path, payload, newid, writer) ==
    WriteFile(MakeDirs(f, folder_path, newid), folder_path, ResultJson,
              [kind |-> "json", data |-> payload, by |-> writer])

\* a variant of _save_images that numbers the images after the files the
\* folder already holds
SaveImagesAppending(f, k, output_folder, ix, iy, iz, newid, writer) ==
    LET f0 == MakeDirs(f, output_folder, newid)
        held == Cardinality(DOMAIN f0[output_folder].files)
        names == {_image_filename(ix, iy, iz, held + b) : b \in 0..(k - 1)}
    IN [f0 EXCEPT ![output_folder] =
            [id |-> f0[output_folder].id,
             files |-> [n \in DOMAIN f0[output_folder].files \cup names |->
                          IF n \in names THEN [kind |-> "img", by |-> writer]
                          ELSE f0[output_folder].files[n]]]]

\* _save_images: one file per image of the batch, named by its position
_save_images(f, k, output_folder, ix, iy, iz, newid, writer) ==
    LET f0 == MakeDirs(f, output_folder, newid)
        names == {_image_filename(ix, iy, iz, b) : b \in 0..(k - 1)}
    IN [f0 EXCEPT ![output_folder] =
            [id |-> f0[output_folder].id,
             files |-> [n \in DOMAIN f0[output_folder].files \cup names |->
                          IF n \in names THEN [kind |-> "img", by |-> writer]
                          ELSE f0[output_folder].files[n]]]]

\* ------------------------------------------------------------------------
\* Inputs of the model
\* ------------------------------------------------------------------------
PlotNodeId == <<"5">>

SamplerInputs ==
    [w \in {<<"s">>, <<"c">>, <<"t">>} |-> JStr(<<"0">>)]

BasePromptNoViewer ==
    [id \in {<<"1">>, PlotNodeId} |->
        IF id = <<"1">>
        THEN [class_type |-> "KSampler", inputs |-> SamplerInputs]
        ELSE [class_type |-> "ArtifyXYZPlot",
              inputs |-> [w \in {K_images} |-> JLink(<<"1">>, 0)]]]

\* node 7 views the plot node, node 8 is a viewer wired to another node
BasePromptViewer ==
    [id \in {<<"1">>, PlotNodeId, <<"7">>, <<"8">>} |->
        IF id \in DOMAIN BasePromptNoViewer THEN BasePromptNoViewer[id]
        ELSE [class_type |-> "ArtifyXYZViewer",
              inputs |-> [w \in {K_xyz_plot} |->
                            JLink(IF id = <<"7">> THEN PlotNodeId ELSE <<"1">>, 0)]]]

Ref(node_id, widget_name) ==
    [node_id |-> node_id, node_title |-> <<"K">>, widget_name |-> widget_name]

RefX == Ref(<<"1">>, <<"s">>)

RefY == Ref(<<"1">>, <<"c">>)

RefZ == Ref(<<"1">>, <<"t">>)

RefBadWidget == Ref(<<"1">>, <<"q">>)

RefBadNode == Ref(<<"9">>, <<"t">>)

ValueXs == { <<>>, <<"a", ";", "b">> }

ValueYs == { <<" ">>, <<"1", ",", " ", "2">> }

ValueZs == { <<>>, <<"p", ";", "q">> }

FolderNames == { <<"a">>, <<".", ".", "/", "a">>, <<" ">> }

\* hidden.prompt is falsy (no graph context) or the graph being executed
Hiddens ==
    [prompt : {EmptyDict, BasePromptNoViewer, BasePromptViewer},
     unique_id : {PlotNodeId},
     workflow : BOOLEAN]

\* a valid 2 x 2 sweep without Z, in a graph with a viewer
GoodArgs ==
    [images |-> 1, input_x |-> RefX, input_y |-> RefY, input_z |-> None,
     value_x |-> <<"a", ";", "b">>, value_y |-> <<"1", ",", " ", "2">>,
     value_z |-> <<>>, output_folder_name |-> <<"a">>, archive_existing |-> TRUE,
     hidden |-> [prompt |-> BasePromptViewer, unique_id |-> PlotNodeId,
                 workflow |-> TRUE]]

\* The arguments of execute: GoodArgs varied in the required axes, in the Z
\* axis (with two values on X or on Y), in the Y widget, in the context and
\* the batch, and in the folder.
PlanArgs ==
    {[GoodArgs EXCEPT !.input_x = x, !.input_y = y, !.value_x = vx, !.value_y = vy] :
        x \in {None, RefX}, y \in {None, RefY}, vx \in ValueXs, vy \in ValueYs}
    \cup
    {[GoodArgs EXCEPT !.input_z = z, !.value_z = vz, !.value_x = v[1], !.value_y = v[2]] :
        z \in {None, RefZ, RefBadNode}, vz \in ValueZs,
        v \in { << <<"a", ";", "b">>, <<"1">> >>, << <<"a">>, <<"1", ",", " ", "2">> >> }}
    \cup
    {[GoodArgs EXCEPT !.input_y = RefBadWidget]}
    \cup
    {[GoodArgs EXCEPT !.hidden = h, !.images = n] : h \in Hiddens, n \in 1..MaxBatch}
    \cup
    {[GoodArgs EXCEPT !.output_folder_name = f, !.archive_existing = a] :
        f \in FolderNames, a \in BOOLEAN}

\* _current_client_id(): the empty string stands for None (no client id)
ClientIds == { <<>>, <<"c">> }

\* response.status_code of POST /prompt
Statuses == {200, 500}

\* ------------------------------------------------------------------------
\* State
\* ------------------------------------------------------------------------
VARIABLES
    fs,         \* the directories under (or addressed from) the output root
    nextdir,    \* identity given to the next directory created
    now,        \* int(time.time())
    queue,      \* the submissions accepted by the execution collaborator, in order
    inv,        \* the PLAN invocation of ArtifyXYZPlot.execute: position and locals
    nplans,     \* PLAN invocations started
    ncomplete,  \* COMPLETE executions made
    call        \* the last call of a helper, reader or route: operation, input, result

vars == <<fs, nextdir, now, queue, inv, nplans, ncomplete, call>>

\* no helper was called yet
NoCall == [op |-> "none"]

IdleInv ==
    [pc |-> "idle", id |-> 0, args |-> None, prompt |-> EmptyDict,
     folder_name |-> <<>>,
     values_x |-> <<>>, values_y |-> <<>>, values_z |-> <<>>,
     output_folder |-> <<>>, batch_size |-> 0, payload |-> None,
     client_id |-> <<>>, viewer_node_ids |-> <<>>, queued |-> 0, has_z |-> FALSE,
     ix |-> 0, iy |-> 0, iz |-> 0, error |-> "", status |-> 0,
     old_dir |-> 0, mwrites |-> 0]

\* The output directory holds the folder of an earlier 1 x 1 sweep (plan 0).
OldManifest ==
    [format |-> "artify_xyz_plot_v1", folder_name |-> <<"a">>, created_at |-> 0,
     values |-> [x |-> << <<"o">> >>, y |-> << <<"o">> >>, z |-> <<>>],
     batch_size |-> 1, annotations |-> _build_annotations(RefX, RefY, None),
     result |-> _build_result_tree(<<"a">>, << <<"o">> >>, << <<"o">> >>, <<>>, 1)]

OldFolder ==
    [id |-> 1,
     files |-> [n \in {ResultJson, _image_filename(0, 0, -1, 0)} |->
                  IF n = ResultJson
                  THEN [kind |-> "json", data |-> OldManifest, by |-> [plan |-> 0]]
                  ELSE [kind |-> "img", by |-> [plan |-> 0, cell |-> <<0, 0, -1>>]]]]

Init ==
    /\ fs = [q \in {_output_folder_path(<<"a">>)} |-> OldFolder]
    /\ nextdir = 2
    /\ now = 0
    /\ queue = <<>>
    /\ inv = IdleInv
    /\ nplans = 0
    /\ ncomplete = 0
    /\ call = NoCall

HasContext(hidden) == hidden.prompt # EmptyDict

\* the xyz_data stamped on the node, None when absent
XyzDataOf(prompt, unique_id) ==
    IF /\ unique_id \in DOMAIN prompt
       /\ "inputs" \in DOMAIN prompt[unique_id]
       /\ K_xyz_data \in DOMAIN prompt[unique_id].inputs
    THEN prompt[unique_id].inputs[K_xyz_data]
    ELSE None

\* ------------------------------------------------------------------------
\* ArtifyXYZPlot.execute, PLAN phase
\* ------------------------------------------------------------------------
\* a variant of StartStep that moves the existing folder aside before it
\* validates the inputs
StartStepArchivingFirst(i, f, args) ==
    LET values_x == _split_values(args.value_x)
        values_y == _split_values(args.value_y)
        values_z == _split_values(args.value_z)
        output_folder == _output_folder_path(_sanitize_folder_name(args.output_folder_name))
        error == IF HasContext(args.hidden)
                    /\ ~_ensure_prompt_node(args.hidden.prompt, args.hidden.unique_id)
                 THEN "NodeNotFound"
                 ELSE IF args.input_x = None \/ args.input_y = None
                 THEN "ValueError: input_x and input_y must be valid INPUT references"
                 ELSE IF values_x = <<>> \/ values_y = <<>>
                 THEN "ValueError: value_x and value_y must each contain a value"
                 ELSE ""
    IN [inv |-> [i EXCEPT !.args = args,
                          !.prompt = args.hidden.prompt,
                          !.folder_name = _sanitize_folder_name(args.output_folder_name),
                          !.values_x = IF error = "" THEN values_x ELSE <<>>,
                          !.values_y = IF error = "" THEN values_y ELSE <<>>,
                          !.values_z = IF error = "" THEN values_z ELSE <<>>,
                          !.error = error,
                          !.pc = IF error = "" THEN "archive" ELSE "error"],
        fs |-> IF args.archive_existing /\ Exists(f, output_folder)
               THEN ShutilMove(f, output_folder,
                               output_folder \o <<"_","o","l","d","_">> \o Dec(0)).fs
               ELSE f]

\* lines 569-603: the folder name, the node lookup and the validation
StartStep(i, f, args) ==
    LET values_x == _split_values(args.value_x)
        values_y == _split_values(args.value_y)
        values_z == _split_values(args.value_z)
        error == IF HasContext(args.hidden)
                    /\ ~_ensure_prompt_node(args.hidden.prompt, args.hidden.unique_id)
                 THEN "NodeNotFound"
                 ELSE IF args.input_x = None \/ args.input_y = None
                 THEN "ValueError: input_x and input_y must be valid INPUT references"
                 ELSE IF values_x = <<>> \/ values_y = <<>>
                 THEN "ValueError: value_x and value_y must each contain a value"
                 ELSE ""
    IN [inv |-> [i EXCEPT !.args = args,
                          !.prompt = args.hidden.prompt,
                          !.folder_name = _sanitize_folder_name(args.output_folder_name),
                          !.values_x = IF error = "" THEN values_x ELSE <<>>,
                          !.values_y = IF error = "" THEN values_y ELSE <<>>,
                          !.values_z = IF error = "" THEN values_z ELSE <<>>,
                          !.error = error,
                          !.pc = IF error = "" THEN "archive" ELSE "error"],
        fs |-> f]

PlanStart(args) ==
    /\ inv.pc = "idle"
    /\ nplans < MaxPlans
    /\ XyzDataOf(args.hidden.prompt, args.hidden.unique_id) = None
    /\ nplans' = nplans + 1
    /\ inv' = StartStep([IdleInv EXCEPT !.id = nplans + 1], fs, args).inv
    /\ fs' = StartStep([IdleInv EXCEPT !.id = nplans + 1], fs, args).fs
    /\ UNCHANGED <<nextdir, now, queue, ncomplete, call>>

\* a variant of ArchiveStep that leaves the existing folder where it is
ArchiveStepKeepingFolder(i, f, t) ==
    LET output_folder == _output_folder_path(i.folder_name)
    IN [inv |-> [i EXCEPT !.output_folder = output_folder,
                          !.old_dir = IF Exists(f, output_folder)
                                      THEN f[output_folder].id ELSE 0,
                          !.error = "",
                          !.pc = "workflow"],
        fs |-> f]

\* lines 605-608: the existing folder is moved aside
ArchiveStep(i, f, t) ==
    LET output_folder == _output_folder_path(i.folder_name)
        backup_name == output_folder \o <<"_","o","l","d","_">> \o Dec(t)
        moved == ShutilMove(f, output_folder, backup_name)
        must == i.args.archive_existing /\ Exists(f, output_folder)
    IN [inv |-> [i EXCEPT !.output_folder = output_folder,
                          !.old_dir = IF Exists(f, output_folder)
                                      THEN f[output_folder].id ELSE 0,
                          !.error = IF must /\ ~moved.ok THEN "shutil.Error" ELSE "",
                          !.pc = IF must /\ ~moved.ok THEN "error" ELSE "workflow"],
        fs |-> IF must THEN moved.fs ELSE f]

PlanArchive ==
    /\ inv.pc = "archive"
    /\ inv' = ArchiveStep(inv, fs, now).inv
    /\ fs' = ArchiveStep(inv, fs, now).fs
    /\ UNCHANGED <<nextdir, now, queue, nplans, ncomplete, call>>

\* lines 610-639: the payload is built, the workflow snapshot written
WorkflowStep(i, f, t, newid) ==
    LET batch_size == i.args.images
        base == [format |-> "artify_xyz_plot_v1",
                 folder_name |-> i.folder_name,
                 created_at |-> t,
                 values |-> [x |-> i.values_x, y |-> i.values_y, z |-> i.values_z],
                 batch_size |-> batch_size,
                 annotations |-> _build_annotations(i.args.input_x, i.args.input_y,
                                                    i.args.input_z),
                 result |-> _build_result_tree(i.folder_name, i.values_x, i.values_y,
                                               i.values_z, batch_size)]
        withwf == [format |-> base.format, folder_name |-> base.folder_name,
                   created_at |-> base.created_at, values |-> base.values,
                   batch_size |-> base.batch_size, annotations |-> base.annotations,
                   result |-> base.result,
                   workflow |-> [filename |-> WorkflowJson]]
    IN [inv |-> [i EXCEPT !.batch_size = batch_size,
                          !.payload = IF i.args.hidden.workflow THEN withwf ELSE base,
                          !.pc = "manifest"],
        fs |-> IF i.args.hidden.workflow
               THEN WriteFile(MakeDirs(f, i.output_folder, newid), i.output_folder,
                              WorkflowJson,
                              [kind |-> "json", data |-> "workflow",
                               by |-> [plan |-> i.id]])
               ELSE f]

PlanWorkflow ==
    /\ inv.pc = "workflow"
    /\ inv' = WorkflowStep(inv, fs, now, nextdir).inv
    /\ fs' = WorkflowStep(inv, fs, now, nextdir).fs
    /\ nextdir' = IF DOMAIN fs' = DOMAIN fs THEN nextdir ELSE nextdir + 1
    /\ UNCHANGED <<now, queue, nplans, ncomplete, call>>

\* lines 641-659: the manifest is written; without graph context the
\* invocation returns, with it the dispatch loop is entered
ManifestStep(i, f, newid, client_id) ==
    LET hidden == i.args.hidden IN
    [inv |-> IF ~HasContext(hidden)
             THEN [i EXCEPT !.mwrites = i.mwrites + 1, !.queued = 0, !.pc = "done"]
             ELSE [i EXCEPT !.mwrites = i.mwrites + 1,
                            !.client_id = client_id,
                            !.viewer_node_ids =
                                _find_viewer_node_ids(i.prompt, hidden.unique_id),
                            !.queued = 0,
                            !.has_z = (i.args.input_z # None /\ Len(i.values_z) > 0),
                            !.ix = 0, !.iy = 0, !.iz = 0,
                            !.pc = "dispatch"],
     fs |-> _write_result_json(f, i.output_folder, i.payload, newid, [plan |-> i.id])]

PlanManifest ==
    /\ inv.pc = "manifest"
    /\ \E client_id \in ClientIds :
          /\ inv' = ManifestStep(inv, fs, nextdir, client_id).inv
          /\ fs' = ManifestStep(inv, fs, nextdir, client_id).fs
    /\ nextdir' = IF DOMAIN fs' = DOMAIN fs THEN nextdir ELSE nextdir + 1
    /\ UNCHANGED <<now, queue, nplans, ncomplete, call>>

\* _queue_prompt: the POST, accepted by the collaborator iff it answers 200.
\* A falsy partial_execution_targets or client_id is left out of the body.
_queue_prompt(q, prompt_data, partial_execution_targets, client_id, status, plan) ==
    IF status = 200
    THEN [ok |-> TRUE,
          queue |-> Append(q, [prompt |-> prompt_data,
                               partial_execution_targets |-> partial_execution_targets,
                               client_id |-> client_id,
                               plan |-> plan,
                               pending |-> TRUE])]
    ELSE [ok |-> FALSE, queue |-> q]

XyzPayload(unique_id, folder_name, ix, iy, iz) ==
    [kind |-> "xyz_data", source_unique_id |-> unique_id,
     output_folder_name |-> folder_name,
     x_index |-> ix, y_index |-> iy, z_index |-> iz]

\* a variant of CellPrompt that pins the widgets and stamps the plot node in
\* the graph being executed itself instead of in a copy of it
CellPromptInPlace(i) ==
    LET hidden == i.args.hidden
        r1 == _set_axis_value(i.prompt, i.args.input_x, i.values_x[i.ix + 1])
        r2 == IF r1.ok
              THEN _set_axis_value(r1.prompt, i.args.input_y, i.values_y[i.iy + 1])
              ELSE r1
        r3 == IF r2.ok /\ i.has_z
              THEN _set_axis_value(r2.prompt, i.args.input_z, i.values_z[i.iz + 1])
              ELSE r2
        node == NodeWithInputs(r3.prompt[hidden.unique_id])
        xyz_payload == XyzPayload(hidden.unique_id, i.folder_name, i.ix, i.iy,
                                  IF i.has_z THEN i.iz ELSE -1)
        new_prompt == [r3.prompt EXCEPT ![hidden.unique_id] =
                          [class_type |-> node.class_type,
                           inputs |-> DictSet(node.inputs, K_xyz_data, xyz_payload)]]
    IN IF ~r3.ok
       THEN [ok |-> FALSE, error |-> r3.error, prompt |-> r3.prompt,
             base |-> r3.prompt]
       ELSE [ok |-> TRUE, error |-> "", prompt |-> new_prompt, base |-> new_prompt]

\* lines 665-677 and 685-696: the graph of one cell, or the lookup error.
\* new_prompt is a deep copy of the graph being executed (line 665), so the
\* widgets are pinned and the plot node is stamped in the copy; base is the
\* graph being executed as the iteration leaves it.
CellPrompt(i) ==
    LET hidden == i.args.hidden
        r1 == _set_axis_value(i.prompt, i.args.input_x, i.values_x[i.ix + 1])
        r2 == IF r1.ok
              THEN _set_axis_value(r1.prompt, i.args.input_y, i.values_y[i.iy + 1])
              ELSE r1
        r3 == IF r2.ok /\ i.has_z
              THEN _set_axis_value(r2.prompt, i.args.input_z, i.values_z[i.iz + 1])
              ELSE r2
        node == NodeWithInputs(r3.prompt[hidden.unique_id])
        xyz_payload == XyzPayload(hidden.unique_id, i.folder_name, i.ix, i.iy,
                                  IF i.has_z THEN i.iz ELSE -1)
        new_prompt == [r3.prompt EXCEPT ![hidden.unique_id] =
                          [class_type |-> node.class_type,
                           inputs |-> DictSet(node.inputs, K_xyz_data, xyz_payload)]]
    IN IF ~r3.ok
       THEN [ok |-> FALSE, error |-> r3.error, prompt |-> r3.prompt,
             base |-> i.prompt]
       ELSE [ok |-> TRUE, error |-> "", prompt |-> new_prompt, base |-> i.prompt]

\* a variant of NextCell with the Y loop innermost
NextCellYInner(i) ==
    IF i.iy + 1 < Len(i.values_y) THEN [i EXCEPT !.iy = i.iy + 1]
    ELSE IF i.has_z /\ i.iz + 1 < Len(i.values_z) THEN [i EXCEPT !.iy = 0, !.iz = i.iz + 1]
    ELSE [i EXCEPT !.iz = 0, !.iy = 0, !.ix = i.ix + 1]

\* the loop variables after the cell (ix, iy, iz): X outer, Y middle, Z inner
NextCell(i) ==
    IF i.has_z /\ i.iz + 1 < Len(i.values_z) THEN [i EXCEPT !.iz = i.iz + 1]
    ELSE IF i.iy + 1 < Len(i.values_y) THEN [i EXCEPT !.iz = 0, !.iy = i.iy + 1]
    ELSE [i EXCEPT !.iz = 0, !.iy = 0, !.ix = i.ix + 1]

\* a variant of DispatchStep that goes on to the next cell when a submission
\* is refused
DispatchStepSkippingRefused(i, q, status) ==
    LET cell == CellPrompt(i)
        sent == _queue_prompt(q, cell.prompt, <<i.args.hidden.unique_id>>,
                              i.client_id, status, i.id)
        nxt == NextCell([i EXCEPT !.queued = IF sent.ok THEN i.queued + 1 ELSE i.queued,
                                  !.status = status])
    IN IF ~cell.ok
       THEN [inv |-> [i EXCEPT !.prompt = cell.base, !.error = cell.error,
                               !.pc = "error"],
             queue |-> q]
       ELSE [inv |-> [nxt EXCEPT !.prompt = cell.base,
                                 !.pc = IF nxt.ix < Len(i.values_x)
                                        THEN "dispatch" ELSE "viewer"],
             queue |-> sent.queue]

\* lines 661-702: one iteration of the dispatch loop
DispatchStep(i, q, status) ==
    LET cell == CellPrompt(i)
        sent == _queue_prompt(q, cell.prompt, <<i.args.hidden.unique_id>>,
                              i.client_id, status, i.id)
        nxt == NextCell([i EXCEPT !.queued = i.queued + 1, !.status = status])
    IN IF ~cell.ok
       THEN [inv |-> [i EXCEPT !.prompt = cell.base, !.error = cell.error,
                               !.pc = "error"],
             queue |-> q]
       ELSE IF ~sent.ok
       THEN [inv |-> [i EXCEPT !.prompt = cell.base, !.error = "RuntimeError",
                               !.status = status, !.pc = "error"],
             queue |-> q]
       ELSE [inv |-> [nxt EXCEPT !.prompt = cell.base,
                                 !.pc = IF nxt.ix < Len(i.values_x)
                                        THEN "dispatch" ELSE "viewer"],
             queue |-> sent.queue]

PlanDispatch ==
    /\ inv.pc = "dispatch"
    /\ \E status \in Statuses :
          \E step \in {DispatchStep(inv, queue, status)} :
              inv' = step.inv /\ queue' = step.queue
    /\ UNCHANGED <<fs, nextdir, now, nplans, ncomplete, call>>

\* lines 706-727: the viewer refresh is queued and the invocation returns
ViewerStep(i, q, status) ==
    LET hidden == i.args.hidden
        viewer_prompt == _prepare_viewer_refresh_prompt(
                             i.prompt, i.viewer_node_ids, i.folder_name,
                             i.output_folder)
        sent == _queue_prompt(q, viewer_prompt, i.viewer_node_ids, i.client_id,
                              status, i.id)
    IN IF i.viewer_node_ids = <<>>
       THEN [inv |-> [i EXCEPT !.pc = "done"], queue |-> q]
       ELSE IF ~sent.ok
       THEN [inv |-> [i EXCEPT !.error = "RuntimeError", !.status = status,
                               !.pc = "error"],
             queue |-> q]
       ELSE [inv |-> [i EXCEPT !.status = status, !.pc = "done"],
             queue |-> sent.queue]

PlanViewer ==
    /\ inv.pc = "viewer"
    /\ \E status \in Statuses :
          /\ inv' = ViewerStep(inv, queue, status).inv
          /\ queue' = ViewerStep(inv, queue, status).queue
    /\ UNCHANGED <<fs, nextdir, now, nplans, ncomplete, call>>

\* the invocation has returned its NodeOutput or raised
PlanReturn ==
    /\ inv.pc \in {"done", "error"}
    /\ inv' = IdleInv
    /\ UNCHANGED <<fs, nextdir, now, queue, nplans, ncomplete, call>>

\* ------------------------------------------------------------------------
\* ArtifyXYZPlot.execute, COMPLETE phase (lines 569-593): the collaborator
\* runs a queued graph whose target is the plot node, with a batch of k images
\* ------------------------------------------------------------------------
\* a variant of CompleteStep that records the finished cell in the manifest
CompleteStepUpdatingManifest(f, job, unique_id, k, newid) ==
    LET xyz_data == XyzDataOf(job.prompt, unique_id)
        folder_name == _sanitize_folder_name(xyz_data.output_folder_name)
        output_folder == _output_folder_path(folder_name)
        writer == [plan |-> job.plan,
                   cell |-> <<xyz_data.x_index, xyz_data.y_index, xyz_data.z_index>>]
    IN _write_result_json(
           _save_images(f, k, output_folder, xyz_data.x_index, xyz_data.y_index,
                        xyz_data.z_index, newid, writer),
           output_folder, [kind |-> "updated", cell |-> writer.cell], newid, writer)

CompleteStep(f, job, unique_id, k, newid) ==
    LET xyz_data == XyzDataOf(job.prompt, unique_id)
        folder_name == _sanitize_folder_name(xyz_data.output_folder_name)
        output_folder == _output_folder_path(folder_name)
    IN _save_images(f, k, output_folder, xyz_data.x_index, xyz_data.y_index,
                    xyz_data.z_index, newid,
                    [plan |-> job.plan,
                     cell |-> <<xyz_data.x_index, xyz_data.y_index, xyz_data.z_index>>])

IsCellJob(job) ==
    /\ Len(job.partial_execution_targets) = 1
    /\ job.prompt[job.partial_execution_targets[1]].class_type = "ArtifyXYZPlot"
    /\ XyzDataOf(job.prompt, job.partial_execution_targets[1]) # None

Complete(j, k) ==
    /\ ncomplete < MaxCompletions
    /\ IsCellJob(queue[j])
    /\ fs' = CompleteStep(fs, queue[j], queue[j].partial_execution_targets[1], k, nextdir)
    /\ nextdir' = IF DOMAIN fs' = DOMAIN fs THEN nextdir ELSE nextdir + 1
    /\ ncomplete' = ncomplete + 1
    /\ UNCHANGED <<now, queue, inv, nplans, call>>

\* the clock
Tick ==
    /\ now < MaxTime
    /\ now' = now + 1
    /\ UNCHANGED <<fs, nextdir, queue, inv, nplans, ncomplete, call>>

Next ==
    \/ \E args \in PlanArgs : PlanStart(args)
    \/ PlanArchive
    \/ PlanWorkflow
    \/ PlanManifest
    \/ PlanDispatch
    \/ PlanViewer
    \/ PlanReturn
    \/ \E j \in 1..Len(queue), k \in 1..MaxBatch : Complete(j, k)
    \/ Tick

Spec == Init /\ [][Next]_vars

\* ------------------------------------------------------------------------
\* The collaborator runs every queued graph once, in any order: SpecRun.
\* The clock, read only for the name of the archived folder (line 607),
\* stands still in SpecRun.
\* ------------------------------------------------------------------------
\* the nodes a node reads from: the links among its inputs
LinkedNodes(node) ==
    {NodeWithInputs(node).inputs[w].node :
        w \in {v \in DOMAIN NodeWithInputs(node).inputs :
                  NodeWithInputs(node).inputs[v].kind = "link"}}

\* the nodes a submission with partial_execution_targets runs: the targets
\* and every node they depend on
Upstream(prompt, targets) ==
    LET step[n \in 0..Cardinality(DOMAIN prompt)] ==
            IF n = 0 THEN targets \cap DOMAIN prompt
            ELSE step[n - 1] \cup
                 ((UNION {LinkedNodes(prompt[m]) : m \in step[n - 1]}) \cap DOMAIN prompt)
    IN step[Cardinality(DOMAIN prompt)]

\* the plot nodes a submission runs
PlotNodesRun(job) ==
    {m \in Upstream(job.prompt, Range(job.partial_execution_targets)) :
        job.prompt[m].class_type = "ArtifyXYZPlot"}

\* lines 571-576: a plot node without the side-channel field runs PLAN
PlanReentered(job) ==
    \E m \in PlotNodesRun(job) : XyzDataOf(job.prompt, m) = None

\* a pending submission is run: a stamped plot node runs COMPLETE with k
\* images, ArtifyXYZViewer.execute and the other nodes write nothing, and a
\* plot node without the side-channel field starts a PLAN invocation on the
\* submitted graph
Execute(j, k) ==
    /\ queue[j].pending
    /\ queue' = [queue EXCEPT ![j].pending = FALSE]
    /\ ncomplete' = ncomplete + 1
    /\ IF PlanReentered(queue[j])
       THEN /\ inv.pc = "idle"
            /\ nplans < MaxPlans
            /\ \E args \in PlanArgs :
                  LET again == [args EXCEPT !.hidden.prompt = queue[j].prompt]
                      start == StartStep([IdleInv EXCEPT !.id = nplans + 1], fs, again)
                  IN inv' = start.inv /\ fs' = start.fs
            /\ nplans' = nplans + 1
            /\ UNCHANGED nextdir
       ELSE /\ \/ PlotNodesRun(queue[j]) = {} /\ fs' = fs
               \/ \E m \in PlotNodesRun(queue[j]) :
                     fs' = CompleteStep(fs, queue[j], m, k, nextdir)
            /\ nextdir' = IF DOMAIN fs' = DOMAIN fs THEN nextdir ELSE nextdir + 1
            /\ UNCHANGED <<inv, nplans>>
    /\ UNCHANGED <<now, call>>

NextRun ==
    \/ \E args \in PlanArgs : PlanStart(args)
    \/ PlanArchive
    \/ PlanWorkflow
    \/ PlanManifest
    \/ PlanDispatch
    \/ PlanViewer
    \/ PlanReturn
    \/ \E j \in 1..Len(queue), k \in 1..MaxBatch : Execute(j, k)

\* a step in which a pending submission stops being pending
RunsPending ==
    \E j \in 1..Len(queue) :
        queue[j].pending /\ queue' = [queue EXCEPT ![j].pending = FALSE]

\* an invocation that has started runs to its return, and the collaborator
\* goes on running submissions while one is pending
SpecRun ==
    /\ Init
    /\ [][NextRun]_vars
    /\ WF_vars(PlanArchive \/ PlanWorkflow \/ PlanManifest \/ PlanDispatch
               \/ PlanViewer \/ PlanReturn)
    /\ WF_queue(RunsPending)

\* ------------------------------------------------------------------------
\* A sweep is planned again on the folder of a sweep whose submissions may
\* still be pending: SpecAgain
\* ------------------------------------------------------------------------
MaxReruns == 1

\* sweeps of one or two cells on the folder "a", archive_existing enabled
SameFolderArgs ==
    {[GoodArgs EXCEPT !.value_x = vx, !.value_y = <<"1">>] :
        vx \in {<<"a">>, <<"a", ";", "b">>}}

\* execute is invoked in PLAN phase once more, after the invocations of
\* PlanStart
PlanAgain(args) ==
    /\ inv.pc = "idle"
    /\ nplans >= MaxPlans
    /\ nplans < MaxPlans + MaxReruns
    /\ XyzDataOf(args.hidden.prompt, args.hidden.unique_id) = None
    /\ nplans' = nplans + 1
    /\ inv' = StartStep([IdleInv EXCEPT !.id = nplans + 1], fs, args).inv
    /\ fs' = StartStep([IdleInv EXCEPT !.id = nplans + 1], fs, args).fs
    /\ UNCHANGED <<nextdir, now, queue, ncomplete, call>>

NextAgain ==
    \/ \E args \in SameFolderArgs : PlanStart(args)
    \/ \E args \in SameFolderArgs : PlanAgain(args)
    \/ PlanArchive
    \/ PlanWorkflow
    \/ PlanManifest
    \/ PlanDispatch
    \/ PlanViewer
    \/ PlanReturn
    \/ \E j \in 1..Len(queue), k \in 1..MaxBatch : Execute(j, k)
    \/ Tick

SpecAgain == Init /\ [][NextAgain]_vars

\* ------------------------------------------------------------------------
\* Properties
\* ------------------------------------------------------------------------
\* the submissions of plan p, in the order in which they were accepted
JobsOf(p) == SelectSeq(queue, LAMBDA job : job.plan = p)

CellJobsOf(p) == SelectSeq(queue, LAMBDA job : job.plan = p /\ IsCellJob(job))

StampOf(job) == XyzDataOf(job.prompt, job.partial_execution_targets[1])

CoordOf(job) == <<StampOf(job).x_index, StampOf(job).y_index, StampOf(job).z_index>>

StampedCoords(p) == {CoordOf(CellJobsOf(p)[n]) : n \in 1..Len(CellJobsOf(p))}

HasManifest(f, path) == Exists(f, path) /\ ResultJson \in DOMAIN f[path].files

\* the (x, y, z) addressed by the leaf slots of a result tree: z is -1 under
\* a cell whose children are image slots
LeafCoords(tree) ==
    UNION {UNION {
        LET cell == tree[x].children[y].children IN
        IF cell # <<>> /\ cell[1].type = "axis"
        THEN {<<x - 1, y - 1, z - 1>> : z \in {n \in 1..Len(cell) : cell[n].children # <<>>}}
        ELSE IF cell # <<>> THEN {<<x - 1, y - 1, -1>>} ELSE {}
        : y \in 1..Len(tree[x].children)} : x \in 1..Len(tree)}

RECURSIVE SumSeq(_)
SumSeq(s) == IF s = <<>> THEN 0 ELSE Head(s) + SumSeq(Tail(s))

LeafCount(tree) ==
    SumSeq([x \in 1..Len(tree) |->
        SumSeq([y \in 1..Len(tree[x].children) |->
            LET cell == tree[x].children[y].children IN
            IF cell # <<>> /\ cell[1].type = "axis"
            THEN SumSeq([z \in 1..Len(cell) |-> Len(cell[z].children)])
            ELSE Len(cell)])])

\* C1: when a PLAN invocation with graph context has finished without error,
\* the coordinates stamped on the cell graphs it submitted are the coordinates
\* addressed by the leaf slots of the manifest it wrote, and the manifest has
\* (submitted cells) x batch_size leaves.
C1_ManifestMatchesSubmissions ==
    (inv.pc = "done" /\ HasContext(inv.args.hidden)) =>
        LET tree == fs[inv.output_folder].files[ResultJson].data.result IN
        /\ StampedCoords(inv.id) = LeafCoords(tree)
        /\ LeafCount(tree) = Len(CellJobsOf(inv.id)) * inv.batch_size

\* the manifest files of the file system
Manifests(f) ==
    [path \in {q \in DOMAIN f : ResultJson \in DOMAIN f[q].files} |->
        f[path].files[ResultJson]]

ManifestWrittenBeforeDispatch ==
    /\ inv.pc \in {"archive", "workflow", "manifest"} =>
          inv.mwrites = 0 /\ JobsOf(inv.id) = <<>>
    /\ inv.pc \in {"dispatch", "viewer", "done"} => inv.mwrites = 1
    /\ (inv.pc # "idle" /\ JobsOf(inv.id) # <<>>) =>
          /\ inv.mwrites = 1
          /\ HasManifest(fs, inv.output_folder)
          /\ fs[inv.output_folder].files[ResultJson] =
                [kind |-> "json", data |-> inv.payload, by |-> [plan |-> inv.id]]

\* C2: the manifest of a sweep is written once, whole, before the first cell
\* graph is submitted (while the invocation submits, the file holds the
\* payload it built), and no COMPLETE execution creates or changes a manifest.
C2_ManifestSingleWriter ==
    /\ []ManifestWrittenBeforeDispatch
    /\ [][ncomplete' # ncomplete => Manifests(fs') = Manifests(fs)]_vars

C2_Witness ==
    /\ ncomplete = MaxCompletions
    /\ inv.pc = "done"
    /\ Len(JobsOf(inv.id)) > 1
    /\ HasManifest(fs, inv.output_folder)

\* the files of the file system, as <<directory, name>>
FileSet(f) == UNION {{<<path, n>> : n \in DOMAIN f[path].files} : path \in DOMAIN f}

FileSetIn(f, path) == IF Exists(f, path) THEN DOMAIN f[path].files ELSE {}

\* C3 (as claimed): a COMPLETE execution stamped (x, y, z) and folder F, with
\* a batch of k images, creates or overwrites exactly the k files
\* filename(x, y, z, b), b < k, inside F, and touches no other file.
C3_CompleteWritesInStampedFolder ==
    [][ncomplete' = ncomplete + 1 =>
        \E j \in 1..Len(queue), k \in 1..MaxBatch :
            /\ IsCellJob(queue[j])
            /\ LET F == _output_folder_path(StampOf(queue[j]).output_folder_name)
                   c == CoordOf(queue[j])
                   written == {<<F, _image_filename(c[1], c[2], c[3], b)>> : b \in 0..(k - 1)}
               IN /\ FileSet(fs') = FileSet(fs) \cup written
                  /\ \A file \in FileSet(fs) \ written :
                        fs'[file[1]].files[file[2]] = fs[file[1]].files[file[2]]
                  /\ \A file \in written :
                        fs'[file[1]].files[file[2]].by =
                            [plan |-> queue[j].plan, cell |-> c]]_vars

\* the cells of the sweep in row-major order, X outer, Y middle, Z inner; Z is
\* active when its reference is bound and its value list is not empty
ExpectedCells(i) ==
    LET zactive == i.args.input_z # None /\ i.values_z # <<>>
        ly == Len(i.values_y)
        lz == IF zactive THEN Len(i.values_z) ELSE 1
    IN [n \in 1..(Len(i.values_x) * ly * lz) |->
            <<(n - 1) \div (ly * lz), ((n - 1) \div lz) % ly,
              IF zactive THEN (n - 1) % lz ELSE -1>>]

\* the viewer nodes that take the output of the plot node
ViewersOf(prompt, plot) ==
    {id \in DOMAIN prompt :
        /\ prompt[id].class_type = "ArtifyXYZViewer"
        /\ prompt[id].inputs[K_xyz_plot] = JLink(plot, 0)}

\* C4: a PLAN invocation with graph context submits the cells in row-major
\* order, each with the plot node as its sole target, then one viewer refresh
\* iff a viewer takes the plot's output, targeting exactly those viewers; when
\* it has finished it has submitted every cell and returns their number.
C4_SubmissionOrder ==
    (inv.pc \in {"dispatch", "viewer", "done", "error"} /\ HasContext(inv.args.hidden)) =>
        LET jobs == JobsOf(inv.id)
            cells == ExpectedCells(inv)
            viewers == ViewersOf(inv.args.hidden.prompt, inv.args.hidden.unique_id)
        IN /\ \A n \in 1..Len(jobs) :
                IF n <= Len(cells)
                THEN /\ IsCellJob(jobs[n])
                     /\ jobs[n].partial_execution_targets = <<inv.args.hidden.unique_id>>
                     /\ CoordOf(jobs[n]) = cells[n]
                ELSE /\ n = Len(cells) + 1
                     /\ viewers # {}
                     /\ ~IsCellJob(jobs[n])
                     /\ Range(jobs[n].partial_execution_targets) = viewers
                     /\ Len(jobs[n].partial_execution_targets) = Cardinality(viewers)
           /\ inv.pc = "done" =>
                /\ Len(jobs) = Len(cells) + (IF viewers # {} THEN 1 ELSE 0)
                /\ inv.queued = Len(cells)
           /\ inv.pc \in {"dispatch", "viewer"} => Len(jobs) = inv.queued

C4_Witness ==
    /\ inv.pc = "done"
    /\ inv.has_z
    /\ inv.queued = 4
    /\ Len(JobsOf(inv.id)) = 5
\* the files of the file system written by plan p
FilesBy(f, p) ==
    {file \in FileSet(f) : f[file[1]].files[file[2]].by.plan = p}

RequiredMissing(args) ==
    \/ args.input_x = None
    \/ args.input_y = None
    \/ _split_values(args.value_x) = <<>>
    \/ _split_values(args.value_y) = <<>>

\* C5: a PLAN invocation whose X or Y reference is missing, or whose X or Y
\* value list parses to empty, ends in a validation error, and the step that
\* rejects it archives nothing, writes no file and submits nothing.
C5_ValidationNoSideEffect ==
    /\ [][(nplans' = nplans + 1 /\ RequiredMissing(inv'.args)) =>
            /\ inv'.pc = "error"
            /\ fs' = fs
            /\ nextdir' = nextdir
            /\ queue' = queue]_vars
    /\ []((inv.pc # "idle" /\ RequiredMissing(inv.args)) =>
            /\ inv.pc = "error"
            /\ JobsOf(inv.id) = <<>>
            /\ FilesBy(fs, inv.id) = {})

C5_Witness ==
    /\ inv.pc = "error"
    /\ inv.args.input_x # None
    /\ inv.args.input_y # None
    /\ _split_values(inv.args.value_x) # <<>>
    /\ _split_values(inv.args.value_y) = <<>>
    /\ inv.args.archive_existing
    /\ Exists(fs, _output_folder_path(inv.folder_name))

\* C6 (as claimed): a PLAN invocation given a non-empty Z value list and no
\* Z reference is rejected at validation: it is never anywhere but in error,
\* and it has archived nothing, written nothing and submitted nothing.
C6_ZValuesWithoutRefRejected ==
    (inv.pc # "idle" /\ inv.args.input_z = None
        /\ _split_values(inv.args.value_z) # <<>>) =>
        /\ inv.pc = "error"
        /\ JobsOf(inv.id) = <<>>
        /\ FilesBy(fs, inv.id) = {}

\* the files a COMPLETE execution of job with a batch of k images writes
WriteSet(job, k) ==
    FileSet(CompleteStep(EmptyDict, job, job.partial_execution_targets[1], k, 0))

\* C7: two distinct cell graphs of one PLAN invocation carry distinct
\* coordinates and their COMPLETE executions write disjoint sets of files,
\* whatever their batches; every image on disk bears a name of the write set
\* of the one cell that wrote it, wherever its folder was moved since.
C7_DistinctCellsDisjointFiles ==
    \A p \in 1..nplans :
        LET jobs == CellJobsOf(p) IN
        /\ \A a, b \in 1..Len(jobs) :
              a # b =>
                 /\ CoordOf(jobs[a]) # CoordOf(jobs[b])
                 /\ \A ka, kb \in 1..MaxBatch :
                       WriteSet(jobs[a], ka) \cap WriteSet(jobs[b], kb) = {}
        /\ \A file \in FilesBy(fs, p) :
              fs[file[1]].files[file[2]].kind = "img" =>
                 \A a \in 1..Len(jobs) :
                    (file[2] \in {w[2] : w \in WriteSet(jobs[a], MaxBatch)})
                        <=> (CoordOf(jobs[a]) = fs[file[1]].files[file[2]].by.cell)

C7_Witness ==
    \E p \in 1..nplans :
        \E f1, f2 \in FilesBy(fs, p) :
            /\ fs[f1[1]].files[f1[2]].kind = "img"
            /\ fs[f2[1]].files[f2[2]].kind = "img"
            /\ fs[f1[1]].files[f1[2]].by.cell # fs[f2[1]].files[f2[2]].by.cell

\* C8: executing COMPLETE again for the same graph with a batch of the same
\* length, right after an execution, leaves the file names of every folder
\* and every manifest as the first execution left them.
C8_CompletionIdempotent ==
    [][ncomplete' = ncomplete + 1 =>
        \A j \in 1..Len(queue), k \in 1..MaxBatch :
            (/\ IsCellJob(queue[j])
             /\ fs' = CompleteStep(fs, queue[j], queue[j].partial_execution_targets[1],
                                   k, nextdir)) =>
                LET again == CompleteStep(fs', queue[j],
                                          queue[j].partial_execution_targets[1], k, nextdir')
                IN /\ FileSet(again) = FileSet(fs')
                   /\ Manifests(again) = Manifests(fs')]_vars

\* two executions were made and one image of a sweep is on disk: the same
\* cell was completed twice with a batch of one image
C8_Witness ==
    /\ ncomplete >= 2
    /\ Cardinality({file \in FilesBy(fs, 1) :
                        fs[file[1]].files[file[2]].kind = "img"}) = 1

\* the references the dispatch loop looks up resolve in the graph
RefResolves(prompt, ref) ==
    /\ ref.node_id \in DOMAIN prompt
    /\ ref.widget_name \in DOMAIN prompt[ref.node_id].inputs

LookupsResolve(i) ==
    /\ RefResolves(i.args.hidden.prompt, i.args.input_x)
    /\ RefResolves(i.args.hidden.prompt, i.args.input_y)
    /\ (i.args.input_z # None /\ i.values_z # <<>>) =>
          RefResolves(i.args.hidden.prompt, i.args.input_z)

DispatchFailureState ==
    /\ (inv.pc # "idle" /\ inv.status \notin {0, 200}) => inv.pc = "error"
    /\ (inv.pc \in {"dispatch", "viewer", "done"} /\ HasContext(inv.args.hidden)
            /\ ~LookupsResolve(inv)) =>
          inv.pc = "dispatch" /\ JobsOf(inv.id) = <<>>
    /\ (inv.pc = "error" /\ inv.error \in {"NodeNotFound", "WidgetNotFound", "RuntimeError"}) =>
          /\ Len(JobsOf(inv.id)) = inv.queued
          /\ \A n \in 1..Len(JobsOf(inv.id)) : IsCellJob(JobsOf(inv.id)[n])
          /\ HasManifest(fs, inv.output_folder)
          /\ fs[inv.output_folder].files[ResultJson].data = inv.payload

\* C9: when a node or widget lookup fails or a submission is answered with a
\* status other than 200 in the dispatch loop, the invocation ends in error
\* at that step and submits nothing more: the cells accepted before stay in
\* the queue, no viewer refresh is queued and the manifest stays on disk.
C9_DispatchFailureAborts ==
    /\ []DispatchFailureState
    /\ [][(inv.pc \in {"dispatch", "viewer"} /\ inv'.pc = "error") =>
            queue' = queue /\ fs' = fs]_vars
    /\ [][(inv.pc = "dispatch" /\ ~LookupsResolve(inv) /\ inv' # inv) =>
            inv'.pc = "error"]_vars

C9_Witness ==
    /\ inv.pc = "error"
    /\ inv.error = "RuntimeError"
    /\ inv.status = 500
    /\ inv.queued >= 1
    /\ inv.queued < Len(ExpectedCells(inv))
    /\ Len(JobsOf(inv.id)) = inv.queued

\* C10: with archive_existing enabled and the target folder present, the old
\* folder is away from the target path from the archive step on, before the
\* workflow snapshot and the manifest are written, and it never receives a
\* file of this PLAN.
C10_ArchiveBeforeWrite ==
    (inv.pc \in {"workflow", "manifest", "dispatch", "viewer", "done", "error"}
        /\ inv.args.archive_existing /\ inv.old_dir # 0) =>
        \A path \in DOMAIN fs :
            fs[path].id = inv.old_dir =>
                /\ inv.error # "shutil.Error" => path # inv.output_folder
                /\ \A n \in DOMAIN fs[path].files : fs[path].files[n].by.plan # inv.id

C10_Witness ==
    /\ inv.pc = "done"
    /\ inv.args.archive_existing
    /\ inv.old_dir # 0
    /\ HasManifest(fs, inv.output_folder)
    /\ WorkflowJson \in DOMAIN fs[inv.output_folder].files
    /\ \E path \in DOMAIN fs : fs[path].id = inv.old_dir
\* the n leaf slots of the cell (ix, iy, iz) of a result tree
LeavesOf(leaves, ix, iy, iz, n) ==
    /\ Len(leaves) = n
    /\ \A b \in 1..Len(leaves) :
          /\ leaves[b].type = "img"
          /\ leaves[b].filename = _image_filename(ix, iy, iz, b - 1)

\* an axis level: one node per value of the list, in the order of the list
AxisLevel(nodes, values) ==
    /\ Len(nodes) = Len(values)
    /\ \A i \in 1..Len(nodes) : nodes[i].type = "axis" /\ nodes[i].value = values[i]

TreeShape(tree, vx, vy, vz, n) ==
    /\ AxisLevel(tree, vx)
    /\ \A ix \in 1..Len(tree) :
          /\ AxisLevel(tree[ix].children, vy)
          /\ \A iy \in 1..Len(tree[ix].children) :
                LET cell == tree[ix].children[iy].children IN
                IF vz # <<>>
                THEN /\ AxisLevel(cell, vz)
                     /\ \A iz \in 1..Len(cell) :
                           LeavesOf(cell[iz].children, ix - 1, iy - 1, iz - 1, n)
                ELSE LeavesOf(cell, ix - 1, iy - 1, -1, n)

\* C14: every manifest written by PLAN records the value lists parsed from
\* its inputs and the batch size, and its result tree has one axis level for
\* X, one for Y and one for Z when the Z list is non-empty, each as broad as
\* its list, with batch_size image slots under every cell, each named
\* filename(x, y, z, batch) for its position.
C14_ManifestTreeShape ==
    \A path \in DOMAIN fs :
        HasManifest(fs, path) =>
            LET file == fs[path].files[ResultJson]
                d == file.data
            IN /\ TreeShape(d.result, d.values.x, d.values.y, d.values.z, d.batch_size)
               /\ (inv.pc # "idle" /\ file.by.plan = inv.id) =>
                     /\ d.values.x = _split_values(inv.args.value_x)
                     /\ d.values.y = _split_values(inv.args.value_y)
                     /\ d.values.z = _split_values(inv.args.value_z)
                     /\ d.batch_size = inv.args.images

C14_Witness ==
    /\ inv.pc = "done"
    /\ HasManifest(fs, inv.output_folder)
    /\ fs[inv.output_folder].files[ResultJson].by.plan = inv.id
    /\ Len(fs[inv.output_folder].files[ResultJson].data.values.z) = 2
    /\ Len(fs[inv.output_folder].files[ResultJson].data.values.x) = 2
    /\ Len(fs[inv.output_folder].files[ResultJson].data.result[2].children[1].children) = 2

\* the widgets the sweep of invocation i pins in each cell graph
PinnedWidgets(i) ==
    {<<i.args.input_x.node_id, i.args.input_x.widget_name>>,
     <<i.args.input_y.node_id, i.args.input_y.widget_name>>}
    \cup (IF i.has_z
          THEN {<<i.args.input_z.node_id, i.args.input_z.widget_name>>}
          ELSE {})

\* the value the cell stamped (x, y, z) pins in widget w of node m
PinnedValue(i, stamp, m, w) ==
    IF <<m, w>> = <<i.args.input_x.node_id, i.args.input_x.widget_name>>
    THEN JStr(i.values_x[stamp.x_index + 1])
    ELSE IF <<m, w>> = <<i.args.input_y.node_id, i.args.input_y.widget_name>>
    THEN JStr(i.values_y[stamp.y_index + 1])
    ELSE JStr(i.values_z[stamp.z_index + 1])

\* the cell graph is the base graph but for the pinned widgets, which hold
\* the values of the cell's own stamp, and the side-channel field
CellGraphFrame(i, base, job) ==
    LET cell == job.prompt
        plot == i.args.hidden.unique_id
        stamp == StampOf(job)
    IN /\ DOMAIN cell = DOMAIN base
       /\ \A m \in DOMAIN base :
             /\ cell[m].class_type = base[m].class_type
             /\ DOMAIN cell[m].inputs =
                    DOMAIN base[m].inputs \cup (IF m = plot THEN {K_xyz_data} ELSE {})
             /\ \A w \in DOMAIN cell[m].inputs :
                    IF <<m, w>> \in PinnedWidgets(i)
                    THEN cell[m].inputs[w] = PinnedValue(i, stamp, m, w)
                    ELSE IF m = plot /\ w = K_xyz_data
                    THEN cell[m].inputs[w] =
                            XyzPayload(plot, i.folder_name, stamp.x_index,
                                       stamp.y_index, stamp.z_index)
                    ELSE cell[m].inputs[w] = base[m].inputs[w]

\* C22: PLAN never modifies the graph being executed: at every point of an
\* invocation, whether it returns or raises, the graph is as it was handed
\* in (no side-channel field on the plot node, no axis widget changed), and
\* every cell graph submitted by the invocation differs from it only in the
\* pinned axis widgets, which hold the values of that cell and of no other,
\* and in the side-channel field stamped on the plot node.
C22_BaseGraphUntouched ==
    inv.pc # "idle" =>
        /\ inv.prompt = inv.args.hidden.prompt
        /\ HasContext(inv.args.hidden) =>
              XyzDataOf(inv.prompt, inv.args.hidden.unique_id) = None
        /\ \A n \in 1..Len(CellJobsOf(inv.id)) :
              CellGraphFrame(inv, inv.args.hidden.prompt, CellJobsOf(inv.id)[n])

\* both outcomes after two cells or more were submitted: the invocation has
\* returned with a Z axis pinned, and it has raised on a refused submission
C22_Witness ==
    /\ inv.pc \in {"done", "error"}
    /\ Len(CellJobsOf(inv.id)) >= 2
    /\ (inv.pc = "done" /\ inv.has_z) \/ (inv.pc = "error" /\ inv.status \notin {0, 200})
    /\ \E n \in 1..Len(CellJobsOf(inv.id)) :
          CellJobsOf(inv.id)[n].prompt # inv.prompt

\* the number of cells of the sweep of invocation i
CellCount(i) ==
    Len(i.values_x) * Len(i.values_y) * (IF i.has_z THEN Len(i.values_z) ELSE 1)

\* a viewer refresh: every target is a viewer whose plot input is literal
\* folder metadata, and no node it runs is the plot node
IsViewerJob(job) ==
    /\ \A n \in 1..Len(job.partial_execution_targets) :
          LET node == job.prompt[job.partial_execution_targets[n]]
          IN /\ node.class_type = "ArtifyXYZViewer"
             /\ node.inputs[K_xyz_plot].kind = "plot_data"
    /\ PlotNodesRun(job) = {}

NoPending == \A j \in 1..Len(queue) : ~queue[j].pending

\* every submission is a stamped cell graph or a viewer refresh cut off from
\* the plot node, none runs PLAN, and an invocation has at most N + 1 of them
FanOutBounded ==
    /\ \A j \in 1..Len(queue) :
          /\ IsCellJob(queue[j]) \/ IsViewerJob(queue[j])
          /\ ~PlanReentered(queue[j])
    /\ inv.pc # "idle" =>
          /\ Len(CellJobsOf(inv.id)) <= CellCount(inv)
          /\ Len(JobsOf(inv.id)) <= CellCount(inv) + 1
    /\ nplans <= MaxPlans

\* only the dispatch loop and the viewer refresh of PLAN submit a graph
SubmittedByPlanOnly ==
    Len(queue') > Len(queue) => inv.pc \in {"dispatch", "viewer"}

\* C23: fan-out terminates.  Every submitted cell graph carries the
\* side-channel field on the plot node, so running it takes COMPLETE; every
\* viewer targeted by the refresh graph has literal folder metadata as its
\* plot input and runs no plot node, so no submission re-enters PLAN; an
\* invocation submits at most N + 1 graphs, running a graph submits none, and
\* whatever the order of the runs the system comes to rest with the
\* invocation returned and no submission pending.
C23_FanOutTerminates ==
    /\ []FanOutBounded
    /\ [][SubmittedByPlanOnly]_vars
    /\ (inv.pc # "idle" \/ ~NoPending) ~> (inv.pc = "idle" /\ NoPending)

\* four cells and the viewer refresh were submitted and all five have run
C23_Witness ==
    /\ inv.pc = "idle"
    /\ Len(queue) = 5
    /\ NoPending
    /\ \E j \in 1..Len(queue) : IsViewerJob(queue[j]) /\ ~IsCellJob(queue[j])

\* C25 (as claimed): whatever output_folder_name PLAN was given, every image
\* written by a COMPLETE execution of one of its cells lies in the folder in
\* which that PLAN wrote its manifest: the folder name stamped at plan time
\* resolves at completion time to the plan-time folder.
C25_ImagesBesideManifest ==
    \A file \in FileSet(fs) :
        LET entry == fs[file[1]].files[file[2]] IN
        (entry.kind = "img" /\ entry.by.plan > 0) =>
            /\ HasManifest(fs, file[1])
            /\ fs[file[1]].files[ResultJson].by = [plan |-> entry.by.plan]

\* C26 (as claimed): when a sweep is planned again on a folder name with
\* archive_existing enabled while cell graphs of the earlier sweep are
\* pending, then however the pending runs interleave with the second PLAN
\* every image in a folder that holds a manifest was written by a COMPLETE
\* execution of the sweep whose manifest that is: a late completion of the
\* archived sweep never writes into the folder of the new sweep.
C26_ImagesOfManifestSweep ==
    \A path \in DOMAIN fs :
        HasManifest(fs, path) =>
            \A n \in DOMAIN fs[path].files :
                fs[path].files[n].kind = "img" =>
                    fs[path].files[n].by.plan = fs[path].files[ResultJson].by.plan

\* ------------------------------------------------------------------------
\* Helpers, reader and routes called on their own: SpecLib draws the input
\* of each call from a bounded set and records the result in call
\* ------------------------------------------------------------------------
\* indices 0..MaxIndex and 10..(10 + MaxIndex) appear in file names
MaxIndex == 1

\* file names of a folder are drawn over MaxFiles names at most
MaxFiles == 2

\* input strings have MaxStr characters at most
MaxStr == 4

planvars == <<fs, nextdir, now, queue, inv, nplans, ncomplete>>

Indices == (0..MaxIndex) \cup {10 + i : i \in 0..MaxIndex}

\* the strings over an alphabet with n characters at most
StringsUpTo(alphabet, n) == UNION {[1..m -> alphabet] : m \in 0..n}

\* re.IGNORECASE on the letters of the pattern
Lower(c) ==
    CASE c = "X" -> "x" [] c = "Y" -> "y" [] c = "Z" -> "z" [] c = "J" -> "j"
      [] c = "P" -> "p" [] c = "E" -> "e" [] c = "G" -> "g" [] c = "N" -> "n"
      [] c = "W" -> "w" [] c = "B" -> "b" [] OTHER -> c

LowerStr(s) == [i \in 1..Len(s) |-> Lower(s[i])]

IsDigit(c) == c \in {"0", "1", "2", "3", "4", "5", "6", "7", "8", "9"}

\* \d+ is greedy: the last position of the run of digits that starts at i,
\* i - 1 when s has no digit at i
RECURSIVE DigitRunEnd(_, _)
DigitRunEnd(s, i) ==
    IF i <= Len(s) /\ IsDigit(s[i]) THEN DigitRunEnd(s, i + 1) ELSE i - 1

DigitValue(c) ==
    CHOOSE v \in 0..9 : <<"0","1","2","3","4","5","6","7","8","9">>[v + 1] = c

\* int(group) of a run of digits
RECURSIVE ToInt(_)
ToInt(digits) ==
    IF digits = <<>> THEN 0
    ELSE 10 * ToInt(SubSeq(digits, 1, Len(digits) - 1)) + DigitValue(digits[Len(digits)])

ImageExtensions ==
    {<<"j","p","g">>, <<"j","p","e","g">>, <<"p","n","g">>, <<"w","e","b","p">>}

NoMatch == [ok |-> FALSE]

\* pattern.match(name) of _infer_plot_meta_from_filenames with the groups
\* converted as lines 346-349 convert them (a missing z group is -1).
\* `$` also matches before a final newline.
PatternMatch(name) ==
    LET s0 == LowerStr(name)
        s == IF s0 # <<>> /\ s0[Len(s0)] = "\n" THEN SubSeq(s0, 1, Len(s0) - 1) ELSE s0
        xe == DigitRunEnd(s, 2)
        ye == DigitRunEnd(s, xe + 3)
        r == SubSeq(s, ye + 1, Len(s))
        ze == DigitRunEnd(r, 3)
        with_z == StartsWith(r, <<"_", "z">>) /\ ze >= 3
        r2 == IF with_z THEN SubSeq(r, ze + 1, Len(r)) ELSE r
        be == DigitRunEnd(r2, 2)
    IN IF ~(StartsWith(s, <<"x">>) /\ xe >= 2) THEN NoMatch
       ELSE IF ~(SubSeq(s, xe + 1, xe + 2) = <<"_", "y">> /\ ye >= xe + 3) THEN NoMatch
       ELSE IF ~(StartsWith(r2, <<"_">>) /\ be >= 2) THEN NoMatch
       ELSE IF ~(be + 1 <= Len(r2) /\ r2[be + 1] = "."
                 /\ SubSeq(r2, be + 2, Len(r2)) \in ImageExtensions) THEN NoMatch
       ELSE [ok |-> TRUE,
             x |-> ToInt(SubSeq(s, 2, xe)),
             y |-> ToInt(SubSeq(s, xe + 3, ye)),
             z |-> IF with_z THEN ToInt(SubSeq(r, 3, ze)) ELSE -1,
             batch |-> ToInt(SubSeq(r2, 2, be))]

SetMax(S) == CHOOSE m \in S : \A n \in S : n <= m

\* sorted(S)
RECURSIVE Sorted(_)
Sorted(S) ==
    IF S = {} THEN <<>>
    ELSE LET m == CHOOSE a \in S : \A n \in S : a <= n
         IN <<m>> \o Sorted(S \ {m})

\* [f"{prefix}{idx}" for idx in seq]
Labels(prefix, seq) == [i \in 1..Len(seq) |-> <<prefix>> \o Dec(seq[i])]

UpTo(n) == [i \in 1..n |-> i - 1]

\* _infer_plot_meta_from_filenames on the names os.listdir returns
_infer_plot_meta_from_filenames(names) ==
    LET matches == {PatternMatch(n) : n \in names} \ {NoMatch}
        x_indices == {m.x : m \in matches}
        y_indices == {m.y : m \in matches}
        z_indices == {m.z : m \in matches}
        batches == {m.batch : m \in matches}
        has_z == \E z \in z_indices : z >= 0
        z_slots == IF has_z THEN Sorted({z \in z_indices : z >= 0}) ELSE <<-1>>
    IN IF x_indices = {} \/ y_indices = {}
       THEN [ok |-> FALSE, error |-> "ValueError: No XYZ images found in folder"]
       ELSE [ok |-> TRUE,
             values_x |-> Labels("x", UpTo(SetMax(x_indices) + 1)),
             values_y |-> Labels("y", UpTo(SetMax(y_indices) + 1)),
             values_z |-> IF has_z THEN Labels("z", z_slots) ELSE <<>>,
             z_slots |-> z_slots,
             batch_size |-> IF batches # {} THEN SetMax(batches) + 1 ELSE 1]

\* dict.get(key, default)
DictGet(d, k, default) == IF k \in DOMAIN d THEN d[k] ELSE default

\* _extract_axis_values_from_tree on a tree whose nodes carry "value"
_extract_axis_values_from_tree(result_tree) ==
    LET Values(nodes) == [i \in 1..Len(nodes) |-> nodes[i].value]
        first_x_children == DictGet(result_tree[1], "children", <<>>)
        first_cell == DictGet(first_x_children[1], "children", <<>>)
        z_level == first_cell # <<>> /\ first_cell[1].type = "axis"
        first_images == DictGet(first_cell[1], "children", <<>>)
        Max1(n) == IF n > 1 THEN n ELSE 1
    IN IF result_tree = <<>>
       THEN [values_x |-> <<>>, values_y |-> <<>>, values_z |-> <<>>, batch_size |-> 1]
       ELSE IF first_x_children = <<>>
       THEN [values_x |-> Values(result_tree), values_y |-> <<>>, values_z |-> <<>>,
             batch_size |-> 1]
       ELSE [values_x |-> Values(result_tree),
             values_y |-> Values(first_x_children),
             values_z |-> IF z_level THEN Values(first_cell) ELSE <<>>,
             batch_size |-> IF z_level THEN Max1(Len(first_images))
                            ELSE Max1(Len(first_cell))]

\* what result.json holds for json.load: no file, text that is no JSON, the
\* JSON null, a JSON array, or a JSON object
ManifestAbsent == [json |-> "absent"]

ManifestMalformed == [json |-> "malformed"]

ManifestNull == [json |-> "null"]

ManifestArray == [json |-> "array"]

ManifestObject(obj) == [json |-> "object", obj |-> obj]

\* _read_result_json: None for no file, the parsed value, or the error
\* json.load raises
_read_result_json(manifest) ==
    IF manifest = ManifestAbsent \/ manifest = ManifestNull
    THEN [ok |-> TRUE, value |-> None]
    ELSE IF manifest = ManifestMalformed
    THEN [ok |-> FALSE, error |-> "JSONDecodeError"]
    ELSE [ok |-> TRUE, value |-> manifest]

\* _collect_plot_meta on a folder with the file names names and the manifest
_collect_plot_meta(names, manifest) ==
    LET read == _read_result_json(manifest)
        result_json == read.value.obj
        result_tree == DictGet(result_json, "result", <<>>)
        values == DictGet(result_json, "values", EmptyDict)
        values_x == DictGet(values, "x", <<>>)
        values_y == DictGet(values, "y", <<>>)
        values_z == DictGet(values, "z", <<>>)
        tree == _extract_axis_values_from_tree(result_tree)
        from_tree == values_x = <<>> \/ values_y = <<>>
        vz == IF from_tree THEN tree.values_z ELSE values_z
    IN IF ~read.ok THEN read
       ELSE IF read.value = None THEN _infer_plot_meta_from_filenames(names)
       ELSE IF read.value.json # "object"
       THEN [ok |-> FALSE, error |-> "AttributeError"]
       ELSE [ok |-> TRUE,
             values_x |-> IF from_tree THEN tree.values_x ELSE values_x,
             values_y |-> IF from_tree THEN tree.values_y ELSE values_y,
             values_z |-> vz,
             z_slots |-> IF vz # <<>> THEN UpTo(Len(vz)) ELSE <<-1>>,
             batch_size |-> tree.batch_size]

\* the names a folder may list
OtherNames ==
    {ResultJson,
     <<"X", "1", "_", "Y", "0", "_", "0", ".", "P", "N", "G">>,
     <<"x", "0", "_", "y", "0", ".", "j", "p", "e", "g">>}

FilePool ==
    {_image_filename(ix, iy, iz, b) :
        ix \in 0..MaxIndex, iy \in {0, MaxIndex}, iz \in {-1, 0, MaxIndex},
        b \in 0..MaxIndex} \cup OtherNames

Listings == {{}} \cup {Range(q) : q \in [1..MaxFiles -> FilePool]}

\* the manifests a folder may hold
ManifestObjects ==
    LET Payload(vx, vy, vz, bs) ==
            [format |-> "artify_xyz_plot_v1", folder_name |-> <<"a">>,
             values |-> [x |-> vx, y |-> vy, z |-> vz], batch_size |-> bs,
             result |-> _build_result_tree(<<"a">>, vx, vy, vz, bs)]
        Headless(vx, vy, vz, bs) ==
            [format |-> "artify_xyz_plot_v1",
             values |-> [x |-> <<>>, y |-> <<>>, z |-> <<>>],
             result |-> _build_result_tree(<<"a">>, vx, vy, vz, bs)]
        p == << <<"p">> >>
        pq == << <<"p">>, <<"q">> >>
    IN {ManifestObject(EmptyDict),
        ManifestObject(Payload(pq, p, <<>>, 1)),
        ManifestObject(Payload(p, pq, pq, MaxBatch)),
        ManifestObject(Headless(pq, p, <<>>, MaxBatch)),
        ManifestObject(Headless(p, pq, pq, 1))}

UnstructuredManifests == {ManifestAbsent, ManifestMalformed, ManifestNull, ManifestArray}

ManifestContents == UnstructuredManifests \cup ManifestObjects

\* _infer_plot_meta_from_filenames is called on a folder
CallInferPlotMeta(names) ==
    /\ call = NoCall
    /\ call' = [op |-> "_infer_plot_meta_from_filenames", names |-> names,
                out |-> _infer_plot_meta_from_filenames(names)]
    /\ UNCHANGED planvars

\* _collect_plot_meta is called on a folder
CallCollectPlotMeta(names, manifest) ==
    /\ call = NoCall
    /\ call' = [op |-> "_collect_plot_meta", names |-> names, manifest |-> manifest,
                out |-> _collect_plot_meta(names, manifest)]
    /\ UNCHANGED planvars

\* the matches of the pattern among names
MatchesIn(names) == {PatternMatch(n) : n \in names} \ {NoMatch}

\* C11 (as claimed): with the manifest absent or malformed, the reader
\* returns what filename recovery returns whenever a file name matches the
\* pattern, and fails with "no images found" only when none matches.
C11_ManifestNeverFatal ==
    (call.op = "_collect_plot_meta"
        /\ call.manifest \in {ManifestAbsent, ManifestMalformed}) =>
        IF MatchesIn(call.names) # {}
        THEN call.out.ok /\ call.out = _infer_plot_meta_from_filenames(call.names)
        ELSE ~call.out.ok
             /\ call.out.error = "ValueError: No XYZ images found in folder"

\* C12 (as claimed): with a matching name in the folder, filename recovery
\* gives each axis the extent (maximal index seen) + 1, for Z when a name
\* carries a z component, reports no Z iff none does, and gives batch_size
\* as (maximal batch index seen) + 1.
C12_RecoveryExtents ==
    (call.op = "_infer_plot_meta_from_filenames" /\ MatchesIn(call.names) # {}) =>
        LET ms == MatchesIn(call.names)
            zs == {m.z : m \in ms} \ {-1}
        IN /\ call.out.ok
           /\ Len(call.out.values_x) = SetMax({m.x : m \in ms}) + 1
           /\ Len(call.out.values_y) = SetMax({m.y : m \in ms}) + 1
           /\ zs # {} => Len(call.out.values_z) = SetMax(zs) + 1
           /\ (call.out.values_z = <<>>) <=> (zs = {})
           /\ call.out.batch_size = SetMax({m.batch : m \in ms}) + 1

\* a graph with a node that has no "inputs" key
PromptBareNode ==
    [id \in {<<"1">>, <<"3">>} |->
        IF id = <<"1">> THEN [class_type |-> "KSampler", inputs |-> SamplerInputs]
        ELSE [class_type |-> "Note"]]

AxisPrompts == {BasePromptNoViewer, BasePromptViewer, PromptBareNode}

AxisRefs ==
    {Ref(n, w) : n \in {<<"1">>, <<"3">>, PlotNodeId, <<"9">>},
                 w \in {<<"s">>, <<"c">>, <<"q">>, K_images}}

AxisValues == {<<>>, <<"a">>, <<"0">>}

\* _set_axis_value is called on a graph
CallSetAxisValue(prompt, axis_ref, value) ==
    /\ call = NoCall
    /\ call' = [op |-> "_set_axis_value", prompt |-> prompt, axis_ref |-> axis_ref,
                value |-> value, out |-> _set_axis_value(prompt, axis_ref, value)]
    /\ UNCHANGED planvars

\* the widget keys of a node
WidgetKeys(node) == IF "inputs" \in DOMAIN node THEN DOMAIN node.inputs ELSE {}

\* C15: _set_axis_value succeeds only on a widget key the referenced node
\* already has, and then changes that one value and nothing else in the
\* graph; when it fails (node or widget not found) every other node is as it
\* was and no node has a widget key it did not have.
C15_SetAxisValueFrame ==
    call.op = "_set_axis_value" =>
        LET before == call.prompt
            after == call.out.prompt
            n == call.axis_ref.node_id
            w == call.axis_ref.widget_name
        IN /\ DOMAIN after = DOMAIN before
           /\ \A m \in DOMAIN before :
                 /\ m # n => after[m] = before[m]
                 /\ WidgetKeys(after[m]) = WidgetKeys(before[m])
                 /\ after[m].class_type = before[m].class_type
           /\ IF call.out.ok
              THEN /\ n \in DOMAIN before
                   /\ w \in WidgetKeys(before[n])
                   /\ after[n].inputs[w] = JStr(call.value)
                   /\ \A k \in WidgetKeys(before[n]) \ {w} :
                         after[n].inputs[k] = before[n].inputs[k]
              ELSE /\ call.out.error \in {"NodeNotFound", "WidgetNotFound"}
                   /\ call.out.error = "NodeNotFound" <=> n \notin DOMAIN before
                   /\ call.out.error = "WidgetNotFound" =>
                         /\ w \notin WidgetKeys(before[n])
                         /\ \A k \in WidgetKeys(before[n]) :
                               after[n].inputs[k] = before[n].inputs[k]

\* a widget not found on a node that had no "inputs" key
C15_Witness ==
    /\ call.op = "_set_axis_value"
    /\ call.out.error = "WidgetNotFound"
    /\ call.axis_ref.node_id = <<"3">>
    /\ "inputs" \notin DOMAIN call.prompt[<<"3">>]

\* _sanitize_folder_name of routes.py: no fallback name
routes_sanitize_folder_name(name) ==
    LET v1 == StrReplace(StrStrip(name), <<"\\">>, <<"/">>)
        v2 == StrStripCh(v1, "/")
    IN StrReplace(v2, <<".", ".">>, <<>>)

FolderAlphabet == {" ", "\\", "/", ".", "a"}

\* both sanitizers are called on a folder name
CallSanitizeFolderName(name) ==
    /\ call = NoCall
    /\ call' = [op |-> "_sanitize_folder_name", name |-> name,
                nodes |-> _sanitize_folder_name(name),
                routes |-> routes_sanitize_folder_name(name)]
    /\ UNCHANGED planvars

\* C16 (as claimed): the folder name sanitized by nodes.py is non-empty, has
\* no backslash and no "..", neither starts nor ends with "/", and joined to
\* the output root it addresses a path under the output root.
C16_SanitizedNameSafe ==
    call.op = "_sanitize_folder_name" =>
        /\ call.nodes # <<>>
        /\ ~Contains(call.nodes, <<"\\">>)
        /\ ~Contains(call.nodes, <<".", ".">>)
        /\ call.nodes[1] # "/"
        /\ call.nodes[Len(call.nodes)] # "/"
        /\ StartsWith(_output_folder_path(call.nodes), OutputDirectory \o <<"/">>)

\* C17 (as claimed): the sanitizer of nodes.py and the sanitizer of
\* routes.py return the same name for every input, the empty and the
\* whitespace-only included.
C17_SanitizersAgree ==
    call.op = "_sanitize_folder_name" => call.nodes = call.routes

\* result.json exists but open() or read() fails
ManifestUnreadable == [json |-> "unreadable"]

\* web.json_response(body, status)
JsonResponse(status, body) == [status |-> status, body |-> body]

\* an exception that leaves the handler
UnhandledFault(error) == [fault |-> error]

\* api_get_xyz_result of routes.py.  query is request.query; disk maps the
\* path of a folder to what its result.json holds.
api_get_xyz_result(query, disk) ==
    LET folder_name == routes_sanitize_folder_name(DictGet(query, "folder_name", <<>>))
        folder_path == PathJoin(OutputDirectory, folder_name)
        content == DictGet(disk, folder_path, ManifestAbsent)
    IN IF folder_name = <<>>
       THEN JsonResponse(400, [error |-> "folder_name is required"])
       ELSE IF content = ManifestAbsent
       THEN JsonResponse(404, [error |-> "result.json not found for folder"])
       ELSE IF content \in {ManifestUnreadable, ManifestMalformed}
       THEN JsonResponse(500, [error |-> "failed to read result.json"])
       ELSE IF content.json # "object"
       THEN UnhandledFault("TypeError")
       ELSE JsonResponse(200, DictSet(content.obj, "folder_name", folder_name))

ApiQueries ==
    {EmptyDict} \cup
    {[folder_name |-> n] :
        n \in {<<>>, <<" ">>, <<"a">>, <<"/", "a", " ">>, <<"b">>, <<".", ".", "/", "a">>}}

\* the output root holds the folder a, with or without a result.json
ApiDisks ==
    {[q \in {_output_folder_path(<<"a">>)} |-> m] :
        m \in ManifestContents \cup {ManifestUnreadable}}

\* GET /artify_testing/xyz/result is served
CallApiGetXyzResult(query, disk) ==
    /\ call = NoCall
    /\ call' = [op |-> "api_get_xyz_result", query |-> query, disk |-> disk,
                out |-> api_get_xyz_result(query, disk)]
    /\ UNCHANGED planvars

\* C18 (as claimed): the result route always answers with a response: 400
\* without a folder name (missing, or empty once sanitized), 404 without a
\* manifest file, 500 when the file cannot be read or parsed, and 200 with
\* the content and the sanitized folder_name for every JSON content.
C18_ResultApiStructured ==
    call.op = "api_get_xyz_result" =>
        LET name == routes_sanitize_folder_name(
                        IF "folder_name" \in DOMAIN call.query
                        THEN call.query.folder_name ELSE <<>>)
            path == OutputDirectory \o <<"/">> \o name
            content == IF path \in DOMAIN call.disk THEN call.disk[path]
                       ELSE ManifestAbsent
        IN /\ "status" \in DOMAIN call.out
           /\ call.out.status =
                 IF name = <<>> THEN 400
                 ELSE IF content = ManifestAbsent THEN 404
                 ELSE IF content \in {ManifestUnreadable, ManifestMalformed} THEN 500
                 ELSE 200
           /\ (call.out.status = 200 /\ content.json = "object") =>
                 /\ call.out.body.folder_name = name
                 /\ \A k \in DOMAIN content.obj \ {"folder_name"} :
                       call.out.body[k] = content.obj[k]

\* axis reference strings have MaxRefStr characters at most
MaxRefStr == 6

\* a Python value given as input_ref: a str, or a value of another type
PyStr(s) == [py |-> "str", s |-> s]

PyOther(type) == [py |-> type]

\* a variant of _parse_input_ref that splits on every separator
ParseInputRefSplittingAll(input_ref) ==
    LET value == StrStrip(input_ref.s)
        parts == StrSplit(value, SPLITTER, -1)
    IN IF input_ref.py # "str" THEN None
       ELSE IF value = <<>> \/ value = <<"n", "o", "n", "e">> THEN None
       ELSE IF Len(parts) # 3 THEN None
       ELSE [node_id |-> IF StartsWith(parts[1], <<"#">>) THEN Tail(parts[1])
                         ELSE parts[1],
             node_title |-> parts[2],
             widget_name |-> parts[3]]

\* _parse_input_ref
_parse_input_ref(input_ref) ==
    LET value == StrStrip(input_ref.s)
        parts == StrSplit(value, SPLITTER, 2)
    IN IF input_ref.py # "str" THEN None
       ELSE IF value = <<>> \/ value = <<"n", "o", "n", "e">> THEN None
       ELSE IF Len(parts) # 3 THEN None
       ELSE [node_id |-> IF StartsWith(parts[1], <<"#">>) THEN Tail(parts[1])
                         ELSE parts[1],
             node_title |-> parts[2],
             widget_name |-> parts[3]]

RefAlphabet == {":", "#", "a", " "}

ExampleRef ==
    <<"3", ":", ":", "M", "y", "N", "o", "d", "e", ":", ":", "s", "e", "e", "d">>

InputRefs ==
    {PyStr(s) : s \in StringsUpTo(RefAlphabet, MaxRefStr)}
    \cup {PyStr(<<"n", "o", "n", "e">>), PyStr(<<" ", "n", "o", "n", "e", " ">>),
          PyStr(ExampleRef), PyStr(<<"#">> \o ExampleRef)}
    \cup {PyOther("NoneType"), PyOther("int"), PyOther("dict")}

\* _parse_input_ref is called
CallParseInputRef(input_ref) ==
    /\ call = NoCall
    /\ call' = [op |-> "_parse_input_ref", input_ref |-> input_ref,
                out |-> _parse_input_ref(input_ref)]
    /\ UNCHANGED planvars

\* C19: _parse_input_ref returns absent for an input that is no string and
\* for a string that, trimmed, is empty, is "none" or holds fewer than two
\* "::"; otherwise it returns the text before the first "::" less one
\* leading "#" as node_id, the text between the first and the second "::"
\* as node_title and all the rest as widget_name.
C19_ParseInputRef ==
    call.op = "_parse_input_ref" =>
        IF call.input_ref.py # "str" THEN call.out = None
        ELSE LET v == StrStrip(call.input_ref.s)
                 p1 == FindFrom(v, <<":", ":">>, 1)
                 p2 == IF p1 = 0 THEN 0 ELSE FindFrom(v, <<":", ":">>, p1 + 2)
                 first == SubSeq(v, 1, p1 - 1)
             IN /\ IF v = <<>> \/ v = <<"n", "o", "n", "e">> \/ p2 = 0
                   THEN call.out = None
                   ELSE call.out =
                          [node_id |-> IF first # <<>> /\ first[1] = "#"
                                       THEN SubSeq(first, 2, Len(first)) ELSE first,
                           node_title |-> SubSeq(v, p1 + 2, p2 - 1),
                           widget_name |-> SubSeq(v, p2 + 2, Len(v))]
                /\ call.input_ref.s = ExampleRef =>
                      call.out = [node_id |-> <<"3">>,
                                  node_title |-> <<"M", "y", "N", "o", "d", "e">>,
                                  widget_name |-> <<"s", "e", "e", "d">>]

\* a reference whose widget name holds a third "::"
C19_Witness ==
    /\ call.op = "_parse_input_ref"
    /\ call.out # None
    /\ Contains(call.out.widget_name, <<":", ":">>)

\* C20 (as claimed): every reference the parser returns has a non-empty
\* node_id and a non-empty widget_name.
C20_ParsedRefNonEmpty ==
    (call.op = "_parse_input_ref" /\ call.out # None) =>
        call.out.node_id # <<>> /\ call.out.widget_name # <<>>

ValueAlphabet == {";", ",", " ", "a", "b"}

\* "  a ; b ;;c "
ExampleValues ==
    <<" ", " ", "a", " ", ";", " ", "b", " ", ";", ";", "c", " ">>

RawValues == StringsUpTo(ValueAlphabet, MaxStr) \cup {ExampleValues}

\* _split_values is called
CallSplitValues(raw) ==
    /\ call = NoCall
    /\ call' = [op |-> "_split_values", raw |-> raw, out |-> _split_values(raw)]
    /\ UNCHANGED planvars

Whitespace == {" ", "\t", "\n"}

\* the separator in use for raw: ";" if raw holds one, else ",", else none
SeparatorOf(raw) ==
    IF \E i \in 1..Len(raw) : raw[i] = ";" THEN {";"}
    ELSE IF \E i \in 1..Len(raw) : raw[i] = "," THEN {","}
    ELSE {}

\* the pieces of raw between the occurrences of the separator in use, each
\* as [from, to], in order
PiecesOf(raw) ==
    LET cuts == {i \in 1..Len(raw) : raw[i] \in SeparatorOf(raw)} \cup {0, Len(raw) + 1}
    IN [n \in 1..(Cardinality(cuts) - 1) |->
          LET from == CHOOSE c \in cuts : Cardinality({d \in cuts : d < c}) = n - 1
              to == CHOOSE c \in cuts : Cardinality({d \in cuts : d < c}) = n
          IN SubSeq(raw, from + 1, to - 1)]

Blank(v) == \A i \in 1..Len(v) : v[i] \in Whitespace

\* the values returned are, in input order, the non-blank pieces of the
\* input between the occurrences of the separator in use, each trimmed
ValuesArePieces(raw, out) ==
    LET pieces == PiecesOf(raw)
        kept == {n \in 1..Len(pieces) : ~Blank(pieces[n])}
    IN /\ Len(out) = Cardinality(kept)
       /\ \A n \in 1..Len(out) :
             LET m == CHOOSE k \in kept : Cardinality({j \in kept : j < k}) = n - 1
                 v == out[n]
             IN /\ v # <<>>
                /\ v[1] \notin Whitespace /\ v[Len(v)] \notin Whitespace
                /\ \E a, b \in 1..Len(pieces[m]) :
                      /\ v = SubSeq(pieces[m], a, b)
                      /\ Blank(SubSeq(pieces[m], 1, a - 1))
                      /\ Blank(SubSeq(pieces[m], b + 1, Len(pieces[m])))
       /\ raw = ExampleValues => out = << <<"a">>, <<"b">>, <<"c">> >>

\* C21 (as claimed): _split_values returns, in input order, non-empty
\* trimmed values, split on ";" if the input holds one, else on ",", else
\* the whole input as one value; an input that is empty, or made only of
\* whitespace and separators (";" and ","), yields the empty list.
C21_SeparatorsOnlyEmpty ==
    call.op = "_split_values" =>
        /\ ValuesArePieces(call.raw, call.out)
        /\ (\A i \in 1..Len(call.raw) : call.raw[i] \in Whitespace \cup {";", ","}) =>
              call.out = <<>>

\* C21 (amended): _split_values returns, in input order, the non-blank
\* pieces of the input between the occurrences of the separator in use (";"
\* if the input holds one, else ",", else none, so the whole input is one
\* piece), each without leading or trailing whitespace and non-empty; the
\* list is empty iff the input holds only whitespace and that separator.
C21_SplitValues ==
    call.op = "_split_values" =>
        /\ ValuesArePieces(call.raw, call.out)
        /\ (call.out = <<>>) <=>
              \A i \in 1..Len(call.raw) :
                 call.raw[i] \in Whitespace \cup SeparatorOf(call.raw)

\* a value that keeps a comma because the input holds a semicolon
C21_Witness ==
    /\ call.op = "_split_values"
    /\ Len(call.out) = 2
    /\ \E n \in 1..2 : Contains(call.out[n], <<",">>)

\* the images on disk written by the run of a cell graph
ImagesOf(f, job) ==
    {file \in FileSet(f) :
        f[file[1]].files[file[2]].by = [plan |-> job.plan, cell |-> CoordOf(job)]}

\* every cell graph invocation i submitted has run, each with a batch of the
\* size of the PLAN batch
SweepComplete(i) ==
    /\ \A j \in 1..Len(queue) : queue[j].plan = i.id => ~queue[j].pending
    /\ \A n \in 1..Len(CellJobsOf(i.id)) :
          Cardinality(ImagesOf(fs, CellJobsOf(i.id)[n])) = i.args.images

\* the shape in the metadata of a folder
ShapeOf(meta) ==
    [x_count |-> Len(meta.values_x), y_count |-> Len(meta.values_y),
     z_slots |-> meta.z_slots, batch_size |-> meta.batch_size]

\* C24 (as claimed): when a PLAN invocation with graph context has succeeded
\* and every cell it submitted has run once with a batch of the PLAN's size
\* (the runs in any order, during the invocation or after it), the shape
\* recovered from the file names of the sweep's folder alone (number of X
\* values, number of Y values, z slots, batch size) is the shape read from
\* the manifest in that folder.
C24_RecoveredShapeMatchesManifest ==
    (inv.pc = "done" /\ HasContext(inv.args.hidden) /\ SweepComplete(inv)) =>
        LET names == FileSetIn(fs, inv.output_folder)
            manifest == ManifestObject(fs[inv.output_folder].files[ResultJson].data)
            recovered == _infer_plot_meta_from_filenames(names)
            read == _collect_plot_meta(names, manifest)
        IN /\ read.ok
           /\ recovered.ok
           /\ ShapeOf(recovered) = ShapeOf(read)

\* _image_filename is called and the name is matched against the pattern
CallImageFilename(ix, iy, iz, batch_index) ==
    /\ call = NoCall
    /\ call' = [op |-> "_image_filename", ix |-> ix, iy |-> iy, iz |-> iz,
                batch_index |-> batch_index,
                name |-> _image_filename(ix, iy, iz, batch_index),
                match |-> PatternMatch(_image_filename(ix, iy, iz, batch_index))]
    /\ UNCHANGED planvars

\* C13: the name of every coordinate (x, y, z, batch), z >= 0 or z = -1,
\* matches the recovery pattern and parses back to the same coordinate, and
\* no other coordinate has the same name.
C13_FilenameRoundTrip ==
    call.op = "_image_filename" =>
        /\ call.match = [ok |-> TRUE, x |-> call.ix, y |-> call.iy, z |-> call.iz,
                         batch |-> call.batch_index]
        /\ (call.iz = -1) <=> ~Contains(call.name, <<"z">>)
        /\ \A ix, iy \in Indices, iz \in Indices \cup {-1}, b \in 0..MaxIndex :
              _image_filename(ix, iy, iz, b) = call.name =>
                 <<ix, iy, iz, b>> = <<call.ix, call.iy, call.iz, call.batch_index>>

C13_Witness ==
    /\ call.op = "_image_filename"
    /\ call.ix = 1 /\ call.iy = 11 /\ call.iz = 10
    /\ call.match.ok

\* the call has returned
CallReturn ==
    /\ call # NoCall
    /\ call' = NoCall
    /\ UNCHANGED planvars

NextLib ==
    \/ call = NoCall
       /\ \E ix, iy \in Indices, iz \in Indices \cup {-1}, b \in 0..MaxIndex :
             CallImageFilename(ix, iy, iz, b)
    \/ call = NoCall
       /\ \E names \in Listings : CallInferPlotMeta(names)
    \/ call = NoCall
       /\ \E names \in Listings, manifest \in ManifestContents :
             CallCollectPlotMeta(names, manifest)
    \/ call = NoCall
       /\ \E prompt \in AxisPrompts, axis_ref \in AxisRefs, value \in AxisValues :
             CallSetAxisValue(prompt, axis_ref, value)
    \/ call = NoCall
       /\ \E name \in StringsUpTo(FolderAlphabet, MaxStr) : CallSanitizeFolderName(name)
    \/ call = NoCall
       /\ \E query \in ApiQueries, disk \in ApiDisks : CallApiGetXyzResult(query, disk)
    \/ call = NoCall
       /\ \E input_ref \in InputRefs : CallParseInputRef(input_ref)
    \/ call = NoCall
       /\ \E raw \in RawValues : CallSplitValues(raw)
    \/ CallReturn

SpecLib == Init /\ [][NextLib]_vars
====
